---- MODULE Spec2Model ----
(***************************************************************************)
(* FM-8/R step sequencer (src/App.tsx): the track/pattern store of the App *)
(* component, the lookahead scheduler (scheduleNotes, togglePlayback), the *)
(* offline render (handleExportWav) and the parameter-lock resolution done *)
(* at the head of every create<Kind>Voice of AudioEngine.                  *)
(*                                                                         *)
(* Conventions                                                             *)
(*  - A React event handler and the re-render that follows it are one      *)
(*    action: handlers read the state of the latest render.  The interval  *)
(*    callback is the one closure that outlives a render: setInterval      *)
(*    keeps the scheduleNotes function it was given, with the tracks, bpm, *)
(*    mutedTracks and soloedTrackId that function closed over.             *)
(*  - Times are JavaScript numbers (IEEE-754 doubles).  A time is kept as  *)
(*    an exact integer count of 2^-57 s, written in five base-2^15 limbs   *)
(*    (least significant first).  Every double in [2^-5, 2^10) is such an  *)
(*    integer, and every arithmetic operation rounds its exact result to   *)
(*    53 significant bits, ties to even, as the hardware does.             *)
(*  - Parameter values, volumes, sends and velocities are in hundredths    *)
(*    (velocity 100 is 1.0, volume 90 is 0.9, tone 800000 is 8000 Hz).     *)
(***************************************************************************)
EXTENDS Integers, Sequences, FiniteSets, TLC

VARIABLES
    isPlaying,        \* useState(false)
    bpm,              \* useState(120)
    globalFxParams,   \* useState({reverb, delay, drive, compressor}), in thousandths
    tracks,           \* useState(INITIAL_TRACKS): id -> Track
    currentStep,      \* useState(-1): the published step, -1 is "none"
    selectedTrackId,  \* useState(0)
    mutedTracks,      \* useState(new Set())
    soloedTrackId,    \* useState(null): -1 is null
    pLockModeActive,  \* useState(false)
    pLockEditStep,    \* useState(null)
    schedulerTimer,   \* useRef(null): the interval and the closure it calls
    intervals,        \* the running interval timers of the window: the closure each one calls
    engineFx,         \* the settings of the real-time engine's effect nodes
    fxEffectQueued,   \* the effect on [globalFxParams, bpm] is queued: its values changed in the last render
    nextNoteTime,     \* useRef(0): the event cursor, a double
    clock,            \* AudioContext.currentTime, in clock quanta
    run,              \* history: start time, first step and step count of the run
    exportJob,        \* handleExportWav: where its synchronous part is, and the renderings it awaits
    mounted,          \* the App component is mounted: the cleanup of its mount effect has not run
    last              \* history: the latest command and what it produced

vars == <<isPlaying, bpm, globalFxParams, tracks, currentStep, selectedTrackId, mutedTracks,
          soloedTrackId, pLockModeActive, pLockEditStep, schedulerTimer, intervals,
          engineFx, fxEffectQueued, nextNoteTime, clock, run, exportJob, mounted, last>>

(***************************************************************************)
(* Bounds of the model                                                     *)
(***************************************************************************)
MaxClock == 15         \* RunSpec: the audio clock runs up to MaxClock quanta of 1/16 s
MaxLiveClock == 1      \* Spec: the same, for sessions with edits during playback
MaxRenders == 1        \* the offline contexts that render at a time
MaxSamples == 2        \* the first MaxSamples samples of a buffer of random samples are held
MaxMixTrack == 2       \* MixSpec: mixer buttons pressed on tracks 0..MaxMixTrack

(***************************************************************************)
(* Doubles                                                                 *)
(***************************************************************************)
B == 32768
Limbs == 1..5

\* v is evaluated once and F is applied to its value (an intermediate result
\* of the arithmetic is computed once, however often it is used)
Let(v, F(_)) == CHOOSE r \in {F(x) : x \in {v}} : TRUE
Let2(v, w, F(_, _)) == CHOOSE r \in {F(x, y) : x \in {v}, y \in {w}} : TRUE

Carry(r0) ==
    Let(r0, LAMBDA r :
    Let(r[2] + (r[1] \div B), LAMBDA x2 :
    Let(r[3] + (x2 \div B), LAMBDA x3 :
    Let(r[4] + (x3 \div B), LAMBDA x4 :
        <<r[1] % B, x2 % B, x3 % B, x4 % B, r[5] + (x4 \div B)>>))))

BZero == <<0, 0, 0, 0, 0>>
BOne == <<1, 0, 0, 0, 0>>
BAdd(a0, b0) == Let2(a0, b0, LAMBDA a, b : Carry([i \in Limbs |-> a[i] + b[i]]))
BSub(a0, b0) == Let2(a0, b0, LAMBDA a, b : Carry([i \in Limbs |-> a[i] - b[i]]))
BMulSmall(a0, m0) == Let2(a0, m0, LAMBDA a, m : Carry([i \in Limbs |-> a[i] * m]))

\* a \div d and a % d for 1 <= d <= B
BDivSmall(a0, d0) ==
    Let2(a0, d0, LAMBDA a, d :
    Let((a[5] % d) * B + a[4], LAMBDA x4 :
    Let((x4 % d) * B + a[3], LAMBDA x3 :
    Let((x3 % d) * B + a[2], LAMBDA x2 :
    Let((x2 % d) * B + a[1], LAMBDA x1 :
        [q |-> <<x1 \div d, x2 \div d, x3 \div d, x4 \div d, a[5] \div d>>,
         r |-> x1 % d])))))

BLess(a0, b0) ==
    Let2(a0, b0, LAMBDA a, b :
        IF a[5] # b[5] THEN a[5] < b[5]
        ELSE IF a[4] # b[4] THEN a[4] < b[4]
        ELSE IF a[3] # b[3] THEN a[3] < b[3]
        ELSE IF a[2] # b[2] THEN a[2] < b[2]
        ELSE a[1] < b[1])

Pow2(k) == 2 ^ k

\* number of significant bits of a small natural and of a limb sequence
SmallBitLen(x0) ==
    Let(x0, LAMBDA x : CHOOSE k \in 0..30 : x < Pow2(k) /\ (k = 0 \/ x >= Pow2(k - 1)))
BitLen(a0) ==
    Let(a0, LAMBDA a :
        IF a = BZero THEN 0
        ELSE Let(CHOOSE i \in Limbs : a[i] # 0 /\ \A j \in Limbs : j > i => a[j] = 0,
                 LAMBDA top : 15 * (top - 1) + SmallBitLen(a[top])))

\* round an exact result to 53 significant bits, ties to even
Round53(a0) ==
    Let(a0, LAMBDA a :
    Let(BitLen(a), LAMBDA len :
        IF len <= 53 THEN a
        ELSE Let2(Pow2(len - 53), BDivSmall(a, Pow2(len - 53)), LAMBDA d, qr :
                 BMulSmall(IF 2 * qr.r > d \/ (2 * qr.r = d /\ qr.q[1] % 2 = 1)
                           THEN BAdd(qr.q, BOne) ELSE qr.q, d))))

\* the double n / d for small naturals n, d with 2^-5 <= n/d < 2^10
Unit == <<0, 0, 0, 4096, 0>>           \* 2^57 units make one second
FQuot(n, d) ==
    Let(BDivSmall(BMulSmall(Unit, n), d), LAMBDA qr :
    Let(BitLen(qr.q), LAMBDA len :
    Let(IF len > 53 THEN Pow2(len - 53) ELSE 1, LAMBDA s :
    Let(BDivSmall(qr.q, s), LAMBDA lo :
    Let(lo.r * d + qr.r, LAMBDA rest :        \* the discarded part, in units of 1/d
        BMulSmall(IF 2 * rest > s * d \/ (2 * rest = s * d /\ lo.q[1] % 2 = 1)
                  THEN BAdd(lo.q, BOne) ELSE lo.q, s))))))

FAdd(a, b) == Round53(BAdd(a, b))
FMulSmall(a, m) == Round53(BMulSmall(a, m))

\* the integer quotient of a by d for a < 4096 * d, one base-16 digit at a
\* time: the digit that follows the leading digits q, found by bisection
QuotFits(a, d, m) == ~BLess(a, BMulSmall(d, m))
QuotDigit(a, d, q, place) ==
    Let(IF QuotFits(a, d, (16 * q + 8) * place) THEN 8 ELSE 0, LAMBDA c3 :
    Let(IF QuotFits(a, d, (16 * q + c3 + 4) * place) THEN c3 + 4 ELSE c3, LAMBDA c2 :
    Let(IF QuotFits(a, d, (16 * q + c2 + 2) * place) THEN c2 + 2 ELSE c2, LAMBDA c1 :
        IF QuotFits(a, d, (16 * q + c1 + 1) * place) THEN c1 + 1 ELSE c1)))
BQuot(a0, d0) ==
    Let2(a0, d0, LAMBDA a, d :
    Let(QuotDigit(a, d, 0, 256), LAMBDA q2 :
    Let(16 * q2 + QuotDigit(a, d, q2, 16), LAMBDA q1 :
        16 * q1 + QuotDigit(a, d, q1, 1))))

\* a * 2^n
RECURSIVE BShl(_, _)
BShl(a, n) == IF n > 14 THEN BShl(BMulSmall(a, Pow2(14)), n - 14) ELSE BMulSmall(a, Pow2(n))

\* Math.floor(a / d) for doubles a >= 0, d > 0 with a / d < 4095.  The
\* division rounds before the floor is taken: a quotient that lies within
\* half a unit in the last place below the integer q + 1 is rounded up to it
\* (the tie goes to q + 1, whose significand is even).
FDivFloor(a0, d0) ==
    Let2(a0, d0, LAMBDA a, d :
    Let(BQuot(a, d), LAMBDA q :
    Let2(BSub(BMulSmall(d, q + 1), a), 54 - SmallBitLen(q), LAMBDA gap, sh :
        \* gap is (q + 1) * d - a, in 1..d; half a last place is 2^-sh
        IF BitLen(gap) + sh <= 58 /\ ~BLess(d, BShl(gap, sh)) THEN q + 1 ELSE q)))

\* the double nearest n / d for naturals n >= 1 and 1 <= d <= 1000: its value
\* is m / 2^s with 2^52 <= m <= 2^53, and cmp tells whether it lies above
\* (1), on (0) or below (-1) the exact quotient
Dbl(n0, d0) ==
    Let2(n0, d0, LAMBDA n, d :
    Let(SmallBitLen(n) - SmallBitLen(d), LAMBDA e0 :
    Let(IF (IF e0 >= 0 THEN n >= d * Pow2(e0) ELSE n * Pow2(-e0) >= d) THEN e0 ELSE e0 - 1,
        LAMBDA e :
    Let(BDivSmall(BShl(<<n % B, n \div B, 0, 0, 0>>, 52 - e), d), LAMBDA qr :
    Let(2 * qr.r > d \/ (2 * qr.r = d /\ qr.q[1] % 2 = 1), LAMBDA up :
        [m |-> IF up THEN BAdd(qr.q, BOne) ELSE qr.q,
         s |-> 52 - e,
         cmp |-> IF qr.r = 0 THEN 0 ELSE IF up THEN 1 ELSE -1])))))

\* g * 2^sh <= d: the distance g / d from an integer is at most half a unit
\* in the last place 2^-sh
WithinHalfUlp(g, sh, d) == BitLen(g) + sh <= BitLen(d) + 1 /\ ~BLess(d, BShl(g, sh))

\* Math.floor and Math.ceil of the double 2 * a / d, for doubles a > 0 and
\* d > 0 (as Dbl gives them) with a / d < 2048: the division rounds first
DblQuot2(a0, d0) ==
    Let2(a0, d0, LAMBDA x, y :
    Let(1 + y.s - x.s, LAMBDA t :
        IF t < -4 THEN [floor |-> 0, ceil |-> 1]
        ELSE Let2(IF t >= 0 THEN BShl(x.m, t) ELSE x.m,
                  IF t < 0 THEN BShl(y.m, -t) ELSE y.m, LAMBDA a, d :
             Let(BQuot(a, d), LAMBDA q :
             Let(54 - SmallBitLen(q), LAMBDA sh :
             Let2(BSub(a, BMulSmall(d, q)), BSub(BMulSmall(d, q + 1), a), LAMBDA rem, gap :
                 IF WithinHalfUlp(gap, sh, d) THEN [floor |-> q + 1, ceil |-> q + 1]
                 ELSE IF rem = BZero \/ (q >= 1 /\ WithinHalfUlp(rem, sh, d))
                      THEN [floor |-> q, ceil |-> q]
                      ELSE [floor |-> q, ceil |-> q + 1]))))))

(***************************************************************************)
(* Tracks, steps and parameter locks                                       *)
(***************************************************************************)
STEPS == 16
StepIdx == 0..(STEPS - 1)
TrackIds == 0..7

NoNote == "null"                 \* note: null
NoLocks == [null |-> TRUE]       \* pLocks: null
NoSolo == -1                     \* soloedTrackId: null
EmptyRec == << >>                \* {}

createEmptySteps ==
    [i \in StepIdx |-> [active |-> FALSE, pLocks |-> NoLocks, note |-> NoNote, velocity |-> 100]]

NEUTRAL_LFO == [waveform |-> "triangle", rate |-> 100, depth |-> 0, destination |-> "none"]
NEUTRAL_FILTER == "lowpass"

INITIAL_KICK_PARAMS ==
    [tune |-> 4000, decay |-> 45, punch |-> 7000, saturation |-> 5000, body |-> 5000,
     tone |-> 800000, transientAmount |-> 5000, pitchEnvAmount |-> 8000,
     pitchEnvDecay |-> 10, rumbleAmount |-> 3000, rumbleDecay |-> 80, rumbleTone |-> 40000,
     filter |-> [type |-> NEUTRAL_FILTER, cutoff |-> 2000000, resonance |-> 100],
     lfo1 |-> NEUTRAL_LFO, lfo2 |-> NEUTRAL_LFO]

INITIAL_HAT_PARAMS ==
    [tone |-> 900000, decay |-> 6, metal |-> 50,
     filter |-> [type |-> NEUTRAL_FILTER, cutoff |-> 2000000, resonance |-> 100],
     lfo1 |-> NEUTRAL_LFO, lfo2 |-> NEUTRAL_LFO]

INITIAL_POLY_PARAMS ==
    [osc1 |-> [waveform |-> "sawtooth", octave |-> 0, detune |-> -300],
     osc2 |-> [waveform |-> "square", octave |-> 0, detune |-> 300],
     oscMix |-> 5000, noiseLevel |-> 2,
     filter |-> [type |-> "lowpass", cutoff |-> 400000, resonance |-> 200],
     ampEnv |-> [attack |-> 1, decay |-> 40, sustain |-> 10, release |-> 20],
     filterEnv |-> [attack |-> 2, decay |-> 40, sustain |-> 0, release |-> 40],
     lfo1 |-> NEUTRAL_LFO, lfo2 |-> NEUTRAL_LFO]

INITIAL_BASS_PARAMS ==
    [waveform |-> "sawtooth", cutoff |-> 80000, resonance |-> 700, decay |-> 30, accent |-> 5000,
     filter |-> [type |-> NEUTRAL_FILTER, cutoff |-> 2000000, resonance |-> 100],
     lfo1 |-> NEUTRAL_LFO, lfo2 |-> NEUTRAL_LFO]

INITIAL_MODAL_PARAMS ==
    [structure |-> 2500, brightness |-> 6000, decay |-> 50, damping |-> 3000,
     filter |-> [type |-> NEUTRAL_FILTER, cutoff |-> 2000000, resonance |-> 100],
     lfo1 |-> NEUTRAL_LFO, lfo2 |-> NEUTRAL_LFO]

INITIAL_RIFT_PARAMS ==
    [pitch |-> 0, fold |-> 3000, drive |-> 2000, feedback |-> 1000, decay |-> 25,
     filter |-> [type |-> "lowpass", cutoff |-> 600000, resonance |-> 500],
     lfo1 |-> NEUTRAL_LFO, lfo2 |-> NEUTRAL_LFO]

INITIAL_GRAIN_PARAMS ==
    [pitch |-> 0, decay |-> 30, density |-> 5000, spread |-> 2000, grainSize |-> 3000,
     filter |-> [type |-> "lowpass", cutoff |-> 1200000, resonance |-> 100],
     lfo1 |-> NEUTRAL_LFO, lfo2 |-> NEUTRAL_LFO]

INITIAL_SCREAM_PARAMS ==
    [pitch |-> 0, decay |-> 40, feedback |-> 8000, damping |-> 500000,
     filter |-> [type |-> "lowpass", cutoff |-> 1500000, resonance |-> 100],
     lfo1 |-> NEUTRAL_LFO, lfo2 |-> NEUTRAL_LFO]

Track(id, name, type, params, reverb, delay, drive, volume, defaultNote) ==
    [id |-> id, name |-> name, type |-> type, params |-> params,
     fxSends |-> [reverb |-> reverb, delay |-> delay, drive |-> drive],
     volume |-> volume, patternLength |-> 16, defaultNote |-> defaultNote,
     steps |-> createEmptySteps]

INITIAL_TRACKS ==
    [id \in TrackIds |->
        CASE id = 0 -> Track(0, "Kick", "kick", INITIAL_KICK_PARAMS, 10, 0, 20, 90, "C2")
          [] id = 1 -> Track(1, "Hat", "hat", INITIAL_HAT_PARAMS, 10, 30, 0, 60, "C5")
          [] id = 2 -> Track(2, "Poly", "poly", INITIAL_POLY_PARAMS, 40, 50, 0, 65, "C4")
          [] id = 3 -> Track(3, "Bass", "bass", INITIAL_BASS_PARAMS, 0, 0, 10, 80, "C1")
          [] id = 4 -> Track(4, "Modal", "modal", INITIAL_MODAL_PARAMS, 60, 60, 0, 140, "C4")
          [] id = 5 -> Track(5, "Rift", "rift", INITIAL_RIFT_PARAMS, 20, 40, 30, 70, "C3")
          [] id = 6 -> Track(6, "Grain", "grain", INITIAL_GRAIN_PARAMS, 50, 50, 10, 65, "C4")
          [] id = 7 -> Track(7, "Scream", "scream", INITIAL_SCREAM_PARAMS, 30, 20, 40, 65, "C5")]

(***************************************************************************)
(* Parameter resolution: the first lines of every create<Kind>Voice        *)
(***************************************************************************)
\* { ...a, ...b }
Spread(a, b) ==
    [k \in (DOMAIN a) \cup (DOMAIN b) |-> IF k \in DOMAIN b THEN b[k] ELSE a[k]]

\* pLocks?.[key] || {}
LockGroup(pLocks, key) ==
    IF pLocks # NoLocks /\ key \in DOMAIN pLocks THEN pLocks[key] ELSE EmptyRec

\* pLocks?.volume ?? volume; the variant is pLocks?.volume || volume, which
\* lets a locked volume of 0 fall back to the track volume
LockVolume_or(pLocks, volume) ==
    IF pLocks # NoLocks /\ "volume" \in DOMAIN pLocks /\ pLocks["volume"] # 0
    THEN pLocks["volume"] ELSE volume
LockVolume(pLocks, volume) ==
    IF pLocks # NoLocks /\ "volume" \in DOMAIN pLocks THEN pLocks["volume"] ELSE volume

NoVoice == [type |-> "none"]     \* the early return of a voice of another kind

Voice(track, groupKey, pLocks, time, note, velocity) ==
    [type |-> track.type,
     params |-> Spread(track.params, LockGroup(pLocks, groupKey)),
     fxSends |-> Spread(track.fxSends, LockGroup(pLocks, "fxSends")),
     volume |-> LockVolume(pLocks, track.volume),
     time |-> time, note |-> note, velocity |-> velocity]

createKickVoice(track, pLocks, time, note, velocity) ==
    IF track.type # "kick" THEN NoVoice ELSE Voice(track, "kickParams", pLocks, time, note, velocity)
createHatVoice(track, pLocks, time, velocity) ==
    IF track.type # "hat" THEN NoVoice ELSE Voice(track, "hatParams", pLocks, time, NoNote, velocity)
createPolyVoice(track, pLocks, time, note, velocity) ==
    IF track.type # "poly" THEN NoVoice ELSE Voice(track, "polyParams", pLocks, time, note, velocity)
createBassVoice(track, pLocks, time, note, velocity) ==
    IF track.type # "bass" THEN NoVoice ELSE Voice(track, "bassParams", pLocks, time, note, velocity)
createModalVoice(track, pLocks, time, note, velocity) ==
    IF track.type # "modal" THEN NoVoice ELSE Voice(track, "modalParams", pLocks, time, note, velocity)
createRiftVoice(track, pLocks, time, note, velocity) ==
    IF track.type # "rift" THEN NoVoice ELSE Voice(track, "riftParams", pLocks, time, note, velocity)
createGrainVoice(track, pLocks, time, note, velocity) ==
    IF track.type # "grain" THEN NoVoice ELSE Voice(track, "grainParams", pLocks, time, note, velocity)
createScreamVoice(track, pLocks, time, note, velocity) ==
    IF track.type # "scream" THEN NoVoice ELSE Voice(track, "screamParams", pLocks, time, note, velocity)

trigger(track, pLocks, time, note, velocity) ==
    CASE track.type = "kick" -> createKickVoice(track, pLocks, time, note, velocity)
      [] track.type = "hat" -> createHatVoice(track, pLocks, time, velocity)
      [] track.type = "poly" -> createPolyVoice(track, pLocks, time, note, velocity)
      [] track.type = "bass" -> createBassVoice(track, pLocks, time, note, velocity)
      [] track.type = "modal" -> createModalVoice(track, pLocks, time, note, velocity)
      [] track.type = "rift" -> createRiftVoice(track, pLocks, time, note, velocity)
      [] track.type = "grain" -> createGrainVoice(track, pLocks, time, note, velocity)
      [] track.type = "scream" -> createScreamVoice(track, pLocks, time, note, velocity)
      [] OTHER -> NoVoice

(***************************************************************************)
(* Scheduling: scheduleNotes and the event loop of handleExportWav         *)
(***************************************************************************)
scheduleAheadTime == FQuot(1, 10)            \* 0.1 sec
Quantum == <<0, 0, 0, 256, 0>>               \* one clock quantum, 1/16 s
ClockTime(c) == BMulSmall(Quantum, c)        \* context.currentTime

\* 60.0 / bpm / 4 (the division by 4 is exact)
stepTimeOf(b) == BDivSmall(FQuot(60, b), 4).q

isAudible(track, muted, solo) ==
    IF solo = NoSolo THEN track.id \notin muted ELSE track.id = solo

\* stepNo % track.patternLength; NaN (no step) for a pattern length of 0
HasStep(track, stepNo) ==
    track.patternLength > 0 /\ (stepNo % track.patternLength) \in StepIdx
LocalIndex(track, stepNo) == stepNo % track.patternLength

Event(track, idx, time) ==
    LET step == track.steps[idx]
        note == IF step.note # NoNote THEN step.note ELSE track.defaultNote
    IN  [track |-> track.id, step |-> idx, pLocks |-> step.pLocks, note |-> note,
         velocity |-> step.velocity,
         voice |-> trigger(track, step.pLocks, time, note, step.velocity)]

\* the tracks.forEach of scheduleNotes for one step of the loop
scheduleStep(trs, muted, solo, localCurrentStep, time) ==
    {Event(trs[id], LocalIndex(trs[id], localCurrentStep), time) :
        id \in {i \in TrackIds : /\ isAudible(trs[i], muted, solo)
                                 /\ HasStep(trs[i], localCurrentStep)
                                 /\ trs[i].steps[LocalIndex(trs[i], localCurrentStep)].active}}

\* the local step index each audible track reads in that step
localSteps(trs, muted, solo, localCurrentStep) ==
    [id \in {i \in TrackIds : isAudible(trs[i], muted, solo) /\ trs[i].patternLength > 0} |->
        LocalIndex(trs[id], localCurrentStep)]

\* one pass through the body of the while loop of scheduleNotes, with the
\* cursor at t; k counts the steps scheduled since the run started and next
\* is the cursor after nextNoteTime.current += stepTime
scheduledStep(cb, t, k) ==
    Let2(stepTimeOf(cb.bpm), k, LAMBDA stepTime, n :
    Let(FDivFloor(t, stepTime) % 16, LAMBDA localCurrentStep :
        [k |-> n, time |-> t, globalStep |-> localCurrentStep,
         local |-> localSteps(cb.tracks, cb.mutedTracks, cb.soloedTrackId, localCurrentStep),
         trig |-> scheduleStep(cb.tracks, cb.mutedTracks, cb.soloedTrackId, localCurrentStep, t),
         next |-> FAdd(t, stepTime)]))

\* the while loop of scheduleNotes, run by the closure cb from cursor t on:
\* the steps it schedules, in order
RECURSIVE scheduleLoop(_, _, _, _)
scheduleLoop(cb, t, limit, k) ==
    IF ~BLess(t, limit) THEN << >>
    ELSE Let(scheduledStep(cb, t, k), LAMBDA rec :
             <<rec>> \o scheduleLoop(cb, rec.next, limit, rec.k + 1))

\* the tracks.forEach of handleExportWav for step i
exportStep(trs, muted, solo, i, time) ==
    {Event(trs[id], LocalIndex(trs[id], i), time) :
        id \in {j \in TrackIds : /\ isAudible(trs[j], muted, solo)
                                 /\ HasStep(trs[j], i)
                                 /\ trs[j].steps[LocalIndex(trs[j], i)].active}}

numSteps == 64
\* const time = i * stepTime, for each step of the loop at each tempo of the
\* BPM knob
exportTimes ==
    [b \in 30..250 |-> [i \in 0..(numSteps - 1) |-> FMulSmall(stepTimeOf(b), i)]]
exportLoop(trs, b, muted, solo) ==
    [i \in 0..(numSteps - 1) |->
        Let(exportTimes[b][i], LAMBDA time :
            [time |-> time, trig |-> exportStep(trs, muted, solo, i, time)])]

\* a \div 2^bits, and whether bits were lost
RECURSIVE ShiftRight(_, _)
ShiftRight(a, bits) ==
    IF bits = 0 THEN [q |-> a, inexact |-> FALSE]
    ELSE LET s == IF bits < 15 THEN bits ELSE 15
             d == BDivSmall(a, Pow2(s))
             rest == ShiftRight(d.q, bits - s)
         IN  [q |-> rest.q, inexact |-> rest.inexact \/ d.r # 0]

\* Math.ceil(duration * 44100): the product is rounded to a double, then
\* raised to the next integer.  A double of more than 53 bits in the unit
\* ends in zeros, which are taken off before the multiplication
sampleRate == 44100
ceilFrames_floor(duration) ==
    LET k == IF BitLen(duration) > 53 THEN BitLen(duration) - 53 ELSE 0
        product == Round53(BMulSmall(ShiftRight(duration, k).q, sampleRate))
        whole == ShiftRight(product, 57 - k)
    IN  whole.q[1] + whole.q[2] * B
ceilFrames(duration) ==
    LET k == IF BitLen(duration) > 53 THEN BitLen(duration) - 53 ELSE 0
        product == Round53(BMulSmall(ShiftRight(duration, k).q, sampleRate))
        whole == ShiftRight(product, 57 - k)
    IN  whole.q[1] + whole.q[2] * B + (IF whole.inexact THEN 1 ELSE 0)

\* new OfflineAudioContext(2, Math.ceil(duration * 44100), 44100)
offlineContext(b) ==
    Let(FMulSmall(stepTimeOf(b), numSteps), LAMBDA duration :
        [numberOfChannels |-> 2, length |-> ceilFrames(duration), sampleRate |-> sampleRate])

(***************************************************************************)
(* The edit commands, as functions of the track table                      *)
(***************************************************************************)
stepClick(trs, trackId, stepIndex) ==
    [trs EXCEPT ![trackId].steps[stepIndex].active = ~trs[trackId].steps[stepIndex].active]

patternLengthChange(trs, trackId, length) ==
    [trs EXCEPT ![trackId].patternLength = length]

paramsKey(type) == 
    CASE type = "kick" -> "kickParams" [] type = "hat" -> "hatParams"
      [] type = "poly" -> "polyParams" [] type = "bass" -> "bassParams"
      [] type = "modal" -> "modalParams" [] type = "rift" -> "riftParams"
      [] type = "grain" -> "grainParams" [] type = "scream" -> "screamParams"

Single(key, value) == [k \in {key} |-> value]

\* the p-lock branch of handleParamChange for one track; the variant writes
\* the value to the base parameters as well
lockParam_writesBase(track, stepIndex, param, value) ==
    LET cur == track.steps[stepIndex]
        pLocks == IF cur.pLocks = NoLocks THEN EmptyRec ELSE cur.pLocks
        trackParamsKey == paramsKey(track.type)
        newPLocks == Spread(pLocks,
                        Single(trackParamsKey,
                               Spread(LockGroup(pLocks, trackParamsKey), Single(param, value))))
    IN  [track EXCEPT !.steps[stepIndex].pLocks = newPLocks,
                      !.params = Spread(track.params, Single(param, value))]
\* a second variant files the value under the Kick's group whatever the track
lockParam_kickGroup(track, stepIndex, param, value) ==
    LET cur == track.steps[stepIndex]
        pLocks == IF cur.pLocks = NoLocks THEN EmptyRec ELSE cur.pLocks
        newPLocks == Spread(pLocks,
                        Single("kickParams",
                               Spread(LockGroup(pLocks, "kickParams"), Single(param, value))))
    IN  [track EXCEPT !.steps[stepIndex].pLocks = newPLocks]
lockParam(track, stepIndex, param, value) ==
    LET cur == track.steps[stepIndex]
        pLocks == IF cur.pLocks = NoLocks THEN EmptyRec ELSE cur.pLocks
        trackParamsKey == paramsKey(track.type)
        newPLocks == Spread(pLocks,
                        Single(trackParamsKey,
                               Spread(LockGroup(pLocks, trackParamsKey), Single(param, value))))
    IN  [track EXCEPT !.steps[stepIndex].pLocks = newPLocks]

\* the other branch: the base parameter
baseParam(track, param, value) ==
    [track EXCEPT !.params = Spread(track.params, Single(param, value))]

paramChange(trs, selected, lockMode, editStep, param, value) ==
    [id \in TrackIds |->
        IF id = selected
        THEN IF lockMode /\ editStep.set
             THEN lockParam(trs[id], editStep.stepIndex, param, value)
             ELSE baseParam(trs[id], param, value)
        ELSE trs[id]]

(***************************************************************************)
(* State                                                                   *)
(***************************************************************************)
\* the initial value of globalFxParams, each number in thousandths; the two
\* tempo divisions are in 48ths of a beat
INITIAL_GLOBAL_FX ==
    [reverb |-> [decay |-> 500, mix |-> 300, preDelay |-> 20, preDelaySync |-> FALSE,
                 preDelayDivision |-> 12],
     delay |-> [time |-> 300, feedback |-> 400, mix |-> 300, timeSync |-> TRUE,
                timeDivision |-> 36],
     drive |-> [amount |-> 20000, tone |-> 8000000, mix |-> 100],
     compressor |-> [threshold |-> -24000, ratio |-> 4000, knee |-> 10000, attack |-> 3,
                     release |-> 250, makeup |-> 3000]]

\* 60 seconds over 48, in microseconds: a 48th of a beat at 1 bpm
BeatUnit == 1250000

\* updateDelay: the delay time (60 / bpm) * timeDivision, in microseconds,
\* and the gains of
\* delayFeedback and delayWet, in millionths
updateDelay(params, b) ==
    [delayTime |-> IF params.timeSync THEN (BeatUnit * params.timeDivision) \div b
                   ELSE params.time * 1000,
     delayFeedback |-> params.feedback * 1000, delayWet |-> params.mix * 1000]

\* updateReverb: the delay time of reverbPreDelay, in microseconds
preDelayTime(params, b) ==
    IF params.preDelaySync THEN (BeatUnit * params.preDelayDivision) \div b
    ELSE params.preDelay * 1000

\* updateDrive: the amount k = amount * 1.5 that shapes the distortion curve,
\* the tone filter's frequency and the wet gain
updateDrive(params) ==
    [curve |-> (params.amount * 3) \div 2, driveTone |-> params.tone, driveWet |-> params.mix]

\* Math.pow(10, makeup / 20), kept as its base and its exponent (makeup is
\* in thousandths of a decibel, the exponent in thousandths)
makeupLinear(makeup) == [base |-> 10, exponent |-> <<makeup, 20>>]

\* updateCompressor: the compressor's five settings and the make-up gain
updateCompressor(params) ==
    [threshold |-> params.threshold, ratio |-> params.ratio, knee |-> params.knee,
     attack |-> params.attack, release |-> params.release,
     makeupGain |-> makeupLinear(params.makeup)]

\* what the effect on [globalFxParams, bpm] sets in the real-time engine:
\* updateReverb, updateDelay, updateDrive and updateCompressor.  Of the
\* impulse response the duration and the decay it is generated with are
\* held; its samples are fresh results of Math.random() on every run
engineFxOf(fx, b) ==
    [delay |-> updateDelay(fx.delay, b),
     reverb |-> [preDelayTime |-> preDelayTime(fx.reverb, b), reverbWet |-> fx.reverb.mix,
                 impulse |-> [duration |-> IF fx.reverb.decay * 4 > 10 THEN fx.reverb.decay * 4 ELSE 10,
                              decay |-> fx.reverb.decay * 2]],
     drive |-> updateDrive(fx.drive),
     compressor |-> updateCompressor(fx.compressor)]

NoTimer == [set |-> FALSE]       \* schedulerTimer.current: null
NoEdit == [set |-> FALSE]        \* pLockEditStep: null
\* what is remembered of the current run: the clock time it started at, the
\* first global step it published, the number of the first step that
\* published global step 0, and how many steps it has scheduled
NoRun == [start |-> BZero, first |-> -1, anchor |-> -1, count |-> 0]
\* no export: handleExportWav is not in its synchronous run, and no offline
\* context is rendering
NoJob == [scheduling |-> FALSE, rendering |-> 0]

\* the scheduleNotes closure of the current render
Closure == [set |-> TRUE, tracks |-> tracks, bpm |-> bpm,
            mutedTracks |-> mutedTracks, soloedTrackId |-> soloedTrackId]

Init ==
    /\ isPlaying = FALSE
    /\ bpm = 120
    /\ globalFxParams = INITIAL_GLOBAL_FX
    /\ tracks = INITIAL_TRACKS
    /\ currentStep = -1
    /\ selectedTrackId = 0
    /\ mutedTracks = {}
    /\ soloedTrackId = NoSolo
    /\ pLockModeActive = FALSE
    /\ pLockEditStep = NoEdit
    /\ schedulerTimer = NoTimer
    /\ intervals = << >>
    /\ engineFx = engineFxOf(globalFxParams, bpm)
    /\ fxEffectQueued = FALSE
    /\ nextNoteTime = BZero
    /\ clock = 0
    /\ run = NoRun
    /\ exportJob = NoJob
    /\ mounted = TRUE
    /\ last = [cmd |-> "none"]

editVars == <<tracks, selectedTrackId, pLockModeActive, pLockEditStep>>
mixVars == <<mutedTracks, soloedTrackId>>
transportVars == <<isPlaying, currentStep, schedulerTimer, intervals, nextNoteTime, run>>
playVars == <<transportVars, exportJob, mounted>>

(***************************************************************************)
(* Transport                                                               *)
(***************************************************************************)
\* the audio clock advances by d quanta
AdvanceClock(d, max) ==
    /\ clock + d <= max
    /\ clock' = clock + d
    /\ last' = [cmd |-> "clock"]
    /\ UNCHANGED <<bpm, globalFxParams, engineFx, fxEffectQueued, editVars, mixVars, playVars>>

\* if (schedulerTimer.current) clearInterval(schedulerTimer.current)
\* (the handle names the interval started last)
clearInterval(timer, running) ==
    IF timer.set THEN SubSeq(running, 1, Len(running) - 1) ELSE running

\* the two branches of togglePlayback
stopPlayback ==
    /\ isPlaying' = FALSE
    /\ currentStep' = -1
    /\ intervals' = clearInterval(schedulerTimer, intervals)
    /\ schedulerTimer' = NoTimer
    /\ run' = NoRun
    /\ UNCHANGED nextNoteTime

startPlayback ==
    /\ nextNoteTime' = ClockTime(clock)
    /\ isPlaying' = TRUE
    /\ schedulerTimer' = Closure
    /\ intervals' = Append(intervals, Closure)
    /\ run' = [NoRun EXCEPT !.start = ClockTime(clock)]
    /\ UNCHANGED currentStep

togglePlayback ==
    /\ IF isPlaying THEN stopPlayback ELSE startPlayback
    /\ last' = [cmd |-> "toggle"]
    /\ UNCHANGED <<bpm, globalFxParams, engineFx, fxEffectQueued, editVars, mixVars, exportJob, mounted, clock>>

\* a running interval fires, named by the handle or not: the scheduleNotes
\* closure that was given to its setInterval runs.  Once the component is
\* unmounted its setCurrentStep changes no state; the triggers and the
\* cursor in the ref are as before
Tick ==
    /\ \E timer \in DOMAIN intervals :
       \E limit \in {FAdd(ClockTime(clock), scheduleAheadTime)} :
       \E steps \in {scheduleLoop(intervals[timer], nextNoteTime, limit, run.count)} :
       LET n == Len(steps)
           zeros == {j \in 1..n : steps[j].globalStep = 0}
       IN  /\ nextNoteTime' = IF n = 0 THEN nextNoteTime ELSE steps[n].next
           /\ currentStep' = IF n = 0 \/ ~mounted THEN currentStep ELSE steps[n].globalStep
           /\ run' = [run EXCEPT !.count = run.count + n,
                                 !.first = IF run.count = 0 /\ n > 0
                                           THEN steps[1].globalStep ELSE run.first,
                                 !.anchor = IF run.anchor = -1 /\ zeros # {}
                                            THEN steps[CHOOSE z \in zeros : \A j \in zeros : z <= j].k
                                            ELSE run.anchor]
           /\ last' = [cmd |-> "tick", steps |-> steps]
    /\ UNCHANGED <<isPlaying, schedulerTimer, intervals, bpm, globalFxParams, engineFx, fxEffectQueued, editVars, mixVars,
                   exportJob, mounted, clock>>

\* the BPM knob.  A queued effect runs before the render that commits the
\* next change of its dependencies
SetBpm(b) ==
    /\ ~fxEffectQueued
    /\ bpm' = b
    /\ fxEffectQueued' = (b # bpm)
    /\ last' = [cmd |-> "bpm"]
    /\ UNCHANGED <<globalFxParams, engineFx, editVars, mixVars, playVars, clock>>

\* useEffect(..., [globalFxParams, bpm]): after the render that committed a
\* change of one of the two, the engine's effect nodes are set from both
fxEffect ==
    /\ fxEffectQueued
    /\ engineFx' = engineFxOf(globalFxParams, bpm)
    /\ fxEffectQueued' = FALSE
    /\ last' = [cmd |-> "fxEffect"]
    /\ UNCHANGED <<bpm, globalFxParams, editVars, mixVars, playVars, clock>>

(***************************************************************************)
(* The offline engine of an export: its noise buffer, its impulse          *)
(* responses and the oscillators of its hat voices.  The results of        *)
(* Math.random() are given by rnd, in hundredths                           *)
(***************************************************************************)
SampleIdx == 0..(MaxSamples - 1)

\* createNoiseBuffer: output[i] = Math.random() * 2 - 1
createNoiseBuffer(rnd) ==
    [numberOfChannels |-> 1, length |-> sampleRate * 2,
     samples |-> [i \in SampleIdx |-> rnd[i] * 2 - 100]]

\* Math.max(x * 2^k, 0.01) for the double x nearest n / d, as the durations
\* of the impulse responses are computed (decay * 4, rumbleDecay * 2): a
\* double m / 2^s
impulseDuration(n, d, k) ==
    IF n * Pow2(k) * 100 <= d
    THEN [m |-> Dbl(1, 100).m, s |-> Dbl(1, 100).s]
    ELSE [m |-> Dbl(n, d).m, s |-> Dbl(n, d).s - k]

\* generateImpulseResponse: const length = sampleRate * duration is a
\* double; createBuffer(2, length, sampleRate) truncates it to the frames of
\* the buffer, and the loop runs for every i < length, with one draw
\* rnd[channel][i] for every i of every channel.  channelData[i] =
\* (Math.random() * 2 - 1) * Math.pow(1 - i / length, decay) is kept as its
\* factors; decay is the quotient of a pair of integers
generateImpulseResponse(duration, decay, rnd) ==
    LET product == Round53(BMulSmall(duration.m, sampleRate))
        whole == ShiftRight(product, duration.s)
        frames == whole.q[1] + whole.q[2] * B
    IN  [numberOfChannels |-> 2, length |-> frames,
         loop |-> frames + (IF whole.inexact THEN 1 ELSE 0),
         samples |-> [channel \in 0..1 |->
                        [i \in SampleIdx |->
                            [noise |-> rnd[channel][i] * 2 - 100,
                             base |-> [i |-> i, length |-> [m |-> product, s |-> duration.s]],
                             exponent |-> decay]]]]

\* updateReverb: generateImpulseResponse(Math.max(decay * 4, 0.01), decay * 2)
\* is the convolver's buffer; the wet gain and the pre-delay
updateReverb(params, b, rnd) ==
    [buffer |-> generateImpulseResponse(impulseDuration(params.decay, 1000, 2),
                                        <<params.decay * 2, 1000>>, rnd),
     reverbWet |-> params.mix, preDelayTime |-> preDelayTime(params, b)]

\* createKickVoice, if (rumbleAmount > 0): rumbleReverb.buffer =
\* generateImpulseResponse(Math.max(0.01, rumbleDecay * 2), rumbleDecay * 1.5)
rumbleBuffer(params, rnd) ==
    generateImpulseResponse(impulseDuration(params.rumbleDecay, 100, 1),
                            <<params.rumbleDecay * 3, 200>>, rnd)

\* createHatVoice: the frequencies of the six square oscillators, in
\* hundredths of a hertz, with one draw rnd[i] for each oscillator
ratios == <<100, 134, 168, 224, 278, 314>>
hatOscillators(params, rnd) ==
    IF params.metal > 0
    THEN [i \in 1..6 |-> (100 + params.metal * 2) * ratios[i] + rnd[i] * 20]
    ELSE << >>

\* the voices of one kind that the loop triggers at step i
voicesOf(events, i, type) == {e \in events[i].trig : e.voice.type = type}

\* the synthesis graph of one offline render: the engine's noise buffer,
\* the reverb's impulse response, the oscillators of every hat voice and
\* the rumble impulse response of every kick voice that has a rumble;
\* rnd.hat[i][id] and rnd.rumble[i][id] are the draws of the voice that
\* step i of the loop triggers for track id
offlineGraph(events, fx, b, rnd) ==
    [noiseBuffer |-> createNoiseBuffer(rnd.noise),
     reverb |-> updateReverb(fx.reverb, b, rnd.impulse),
     delayFeedback |-> updateDelay(fx.delay, b).delayFeedback,
     hats |-> UNION {{[time |-> events[i].time, step |-> e.step,
                       oscillators |-> hatOscillators(e.voice.params, rnd.hat[i][e.track])] :
                         e \in voicesOf(events, i, "hat")} :
                     i \in DOMAIN events},
     rumbles |-> UNION {{[time |-> events[i].time, step |-> e.step,
                          buffer |-> rumbleBuffer(e.voice.params, rnd.rumble[i][e.track])] :
                            e \in {f \in voicesOf(events, i, "kick") : f.voice.params.rumbleAmount > 0}} :
                        i \in DOMAIN events}]

RenderValues == {0, 50}
\* the draws of the hat voices: a and b for the first and the other
\* oscillators of the voices of step 0, c and d for those of every later
\* voice
HatDraw(a, b, c, d) ==
    [i \in 0..(numSteps - 1) |->
        [id \in TrackIds |->
            [o \in 1..6 |-> IF i = 0 THEN (IF o = 1 THEN a ELSE b)
                                     ELSE (IF o = 1 THEN c ELSE d)]]]
\* all alike, the oscillators of a voice apart, two voices apart
HatDraws ==
    {HatDraw(0, 0, 0, 0), HatDraw(50, 50, 50, 50), HatDraw(0, 50, 0, 50), HatDraw(0, 0, 50, 50)}
\* the draws of the rumble impulse responses: a for the voices of step 0, b
\* for those of every later voice
RumbleDraw(a, b) ==
    [i \in 0..(numSteps - 1) |->
        [id \in TrackIds |-> [channel \in 0..1 |-> [s \in SampleIdx |-> IF i = 0 THEN a ELSE b]]]]
RumbleDraws == {RumbleDraw(0, 0), RumbleDraw(50, 50), RumbleDraw(0, 50)}
RenderDraws ==
    [noise : [SampleIdx -> RenderValues],
     impulse : [0..1 -> [SampleIdx -> RenderValues]],
     hat : HatDraws,
     rumble : RumbleDraws]
\* the draws in which every result of Math.random() is the same
EvenDraws ==
    {[noise |-> [i \in SampleIdx |-> v],
      impulse |-> [channel \in 0..1 |-> [i \in SampleIdx |-> v]],
      hat |-> HatDraw(v, v, v, v),
      rumble |-> RumbleDraw(v, v)] : v \in RenderValues}

(***************************************************************************)
(* handleExportWav.  Up to its await the handler is one synchronous run:   *)
(* the stop (ExportWav), then the offline engine and the event loop        *)
(* (Render), which no other handler comes between; what follows the await  *)
(* (ExportDone) runs when the rendering has finished                       *)
(***************************************************************************)
\* no handler is in its synchronous run: the next event can be handled
Handled == ~exportJob.scheduling

\* const wasPlaying = isPlaying; if (wasPlaying) togglePlayback(); the
\* variant calls togglePlayback without looking at isPlaying
ExportWav_alwaysToggles ==
    /\ exportJob.rendering < MaxRenders
    /\ IF isPlaying THEN stopPlayback ELSE startPlayback
    /\ exportJob' = [exportJob EXCEPT !.scheduling = TRUE]
    /\ last' = [cmd |-> "export", wasPlaying |-> isPlaying]
    /\ UNCHANGED <<bpm, globalFxParams, engineFx, fxEffectQueued, editVars, mixVars, mounted, clock>>
ExportWav ==
    /\ exportJob.rendering < MaxRenders
    /\ IF isPlaying THEN stopPlayback ELSE UNCHANGED transportVars
    /\ exportJob' = [exportJob EXCEPT !.scheduling = TRUE]
    /\ last' = [cmd |-> "export", wasPlaying |-> isPlaying]
    /\ UNCHANGED <<bpm, globalFxParams, engineFx, fxEffectQueued, editVars, mixVars, mounted, clock>>

\* new OfflineAudioContext, new AudioEngine(offlineContext), the four
\* update calls and the loop that triggers every event on the offline
\* engine, up to offlineContext.startRendering()
Render(draws) ==
    /\ exportJob.scheduling
    /\ \E events \in {exportLoop(tracks, bpm, mutedTracks, soloedTrackId)} :
       \E rnd \in draws :
          last' = [cmd |-> "render", buffer |-> offlineContext(bpm), events |-> events,
                   graph |-> offlineGraph(events, globalFxParams, bpm, rnd)]
    /\ exportJob' = [scheduling |-> FALSE, rendering |-> exportJob.rendering + 1]
    /\ UNCHANGED <<transportVars, bpm, globalFxParams, engineFx, fxEffectQueued, editVars, mixVars, mounted, clock>>

\* the rendering has finished: the buffer is written as a WAV file
\* (audioBufferToWav) and downloaded
ExportDone ==
    /\ exportJob.rendering > 0
    /\ exportJob' = [exportJob EXCEPT !.rendering = exportJob.rendering - 1]
    /\ last' = [cmd |-> "exportDone"]
    /\ UNCHANGED <<transportVars, bpm, globalFxParams, engineFx, fxEffectQueued, editVars, mixVars, mounted, clock>>

(***************************************************************************)
(* Mixer and editing surface                                               *)
(***************************************************************************)
handleMuteToggle(trackId) ==
    /\ mutedTracks' = IF trackId \in mutedTracks THEN mutedTracks \ {trackId}
                                                 ELSE mutedTracks \cup {trackId}
    /\ last' = [cmd |-> "mute", trackId |-> trackId]
    /\ UNCHANGED <<bpm, globalFxParams, engineFx, fxEffectQueued, editVars, soloedTrackId, playVars, clock>>

\* the variant never clears solo
handleSoloToggle_sticky(trackId) ==
    /\ soloedTrackId' = trackId
    /\ last' = [cmd |-> "solo", trackId |-> trackId]
    /\ UNCHANGED <<bpm, globalFxParams, engineFx, fxEffectQueued, editVars, mutedTracks, playVars, clock>>
handleSoloToggle(trackId) ==
    /\ soloedTrackId' = IF soloedTrackId = trackId THEN NoSolo ELSE trackId
    /\ last' = [cmd |-> "solo", trackId |-> trackId]
    /\ UNCHANGED <<bpm, globalFxParams, engineFx, fxEffectQueued, editVars, mutedTracks, playVars, clock>>

handleStepClick(trackId, stepIndex) ==
    /\ IF pLockModeActive
       THEN /\ pLockEditStep' = IF pLockEditStep = [set |-> TRUE, trackId |-> trackId, stepIndex |-> stepIndex]
                                THEN NoEdit
                                ELSE [set |-> TRUE, trackId |-> trackId, stepIndex |-> stepIndex]
            /\ UNCHANGED tracks
       ELSE /\ tracks' = stepClick(tracks, trackId, stepIndex)
            /\ UNCHANGED pLockEditStep
    /\ last' = [cmd |-> "stepClick"]
    /\ UNCHANGED <<bpm, globalFxParams, engineFx, fxEffectQueued, selectedTrackId, pLockModeActive, mixVars, playVars, clock>>

handlePatternLengthChange(trackId, length) ==
    /\ tracks' = patternLengthChange(tracks, trackId, length)
    /\ last' = [cmd |-> "patternLength"]
    /\ UNCHANGED <<bpm, globalFxParams, engineFx, fxEffectQueued, selectedTrackId, pLockModeActive, pLockEditStep, mixVars, playVars, clock>>

handleParamChange(param, value) ==
    /\ tracks' = paramChange(tracks, selectedTrackId, pLockModeActive, pLockEditStep, param, value)
    /\ last' = [cmd |-> "param", param |-> param, value |-> value]
    /\ UNCHANGED <<bpm, globalFxParams, engineFx, fxEffectQueued, selectedTrackId, pLockModeActive, pLockEditStep, mixVars, playVars, clock>>

onTrackSelect(trackId) ==
    /\ selectedTrackId' = trackId
    /\ last' = [cmd |-> "select"]
    /\ UNCHANGED <<bpm, globalFxParams, engineFx, fxEffectQueued, tracks, pLockModeActive, pLockEditStep, mixVars, playVars, clock>>

onPLockToggle ==
    /\ pLockModeActive' = ~pLockModeActive
    /\ pLockEditStep' = NoEdit
    /\ last' = [cmd |-> "pLockMode"]
    /\ UNCHANGED <<bpm, globalFxParams, engineFx, fxEffectQueued, tracks, selectedTrackId, mixVars, playVars, clock>>

(***************************************************************************)
(* Inputs                                                                  *)
(***************************************************************************)
LiveClockSteps == {1}
RunClockSteps == {3}
LiveBpms == {120, 240}
LiveTracks == {0}

\* one knob of each editor, and the value it is turned to
LeafEdit(type) ==
    CASE type = "kick" -> <<"tune", 6000>> [] type = "hat" -> <<"tone", 1200000>>
      [] type = "poly" -> <<"oscMix", 2500>> [] type = "bass" -> <<"cutoff", 120000>>
      [] type = "modal" -> <<"structure", 7500>> [] type = "rift" -> <<"fold", 9000>>
      [] type = "grain" -> <<"density", 1000>> [] type = "scream" -> <<"feedback", 9900>>

\* const pLockStep = pLockModeActive && pLockEditStep ? tracks[..].steps[..] : null,
\* and the pLocks prop of the editor, pLockStep?.pLocks ?? null
editorPLocks ==
    IF pLockModeActive /\ pLockEditStep.set
    THEN tracks[pLockEditStep.trackId].steps[pLockEditStep.stepIndex].pLocks
    ELSE NoLocks

\* InstrumentEditor.getVal: the locked value of the editor's step, else the base value
getVal(track, pLocks, paramName) ==
    IF paramName \in DOMAIN LockGroup(pLocks, paramsKey(track.type))
    THEN LockGroup(pLocks, paramsKey(track.type))[paramName]
    ELSE track.params[paramName]

\* FilterSection.handleChange: Object.assign({}, params.filter, {[field]: value})
filterHandleChange(params, field, value) ==
    <<"filter", Spread(params.filter, Single(field, value))>>

\* LFOSection.handleChange: {...params[lfoKey], [field]: value}
lfoHandleChange(params, lfoKey, field, value) ==
    <<lfoKey, Spread(params[lfoKey], Single(field, value))>>

\* InstrumentEditor.handleNestedChange('topLevel.nested', value)
handleNestedChange(track, pLocks, topLevel, nested, value) ==
    <<topLevel, Spread(getVal(track, pLocks, topLevel), Single(nested, value))>>

\* the CUTOFF knob of the Poly editor turned to 1000:
\* handleNestedChange('filter.cutoff', 1000), the whole filter record built
\* from the filter the editor shows (the one locked on the edited step, if any)
FilterEdit(track) == handleNestedChange(track, editorPLocks, "filter", "cutoff", 100000)

\* the knob that is turned in the editor of the selected track: the filter
\* cutoff of the poly synth, the first knob of every other instrument
ParamEdits ==
    LET track == tracks[selectedTrackId]
    IN  {IF track.type = "poly" THEN FilterEdit(track) ELSE LeafEdit(track.type)}

(***************************************************************************)
(* Spec: transport, export and mixer, with edits made during playback; the *)
(* play button's handler runs once in every render (TimerSpec has the      *)
(* render that runs it twice)                                              *)
(***************************************************************************)
Next ==
    \/ Handled /\ \E d \in LiveClockSteps : AdvanceClock(d, MaxLiveClock)
    \/ Handled /\ togglePlayback
    \/ Handled /\ Tick
    \/ Handled /\ \E b \in LiveBpms : SetBpm(b)
    \/ Handled /\ fxEffect
    \/ Handled /\ ExportWav
    \/ Render(EvenDraws)
    \/ Handled /\ ExportDone
    \/ Handled /\ \E t \in LiveTracks : handleMuteToggle(t)
    \/ Handled /\ \E t \in LiveTracks : handleSoloToggle(t)
    \/ Handled /\ \E t \in LiveTracks : handleStepClick(t, 0)

Spec == Init /\ [][Next]_vars

(***************************************************************************)
(* Claims checked under Spec                                               *)
(***************************************************************************)
\* what scheduleNotes schedules when it reads the values of the current render
currentSchedule ==
    scheduleLoop(Closure, nextNoteTime, FAdd(ClockTime(clock), scheduleAheadTime), run.count)
currentNext ==
    IF currentSchedule = << >> THEN nextNoteTime ELSE currentSchedule[Len(currentSchedule)].next

\* C1: every lookahead tick computes step duration, audibility and the steps
\* it triggers from the bpm, mute set, solo track and track table that are
\* current at the time of that tick, also after they were changed during
\* playback.
C1_TickUsesCurrentValues ==
    [][last'.cmd = "tick" =>
          /\ nextNoteTime' = currentNext
          /\ last'.steps = currentSchedule]_vars

\* a track is audible: a solo track is set and it is this track, or no solo
\* track is set and the track is not in the mute set
Audible(id) ==
    \/ soloedTrackId # NoSolo /\ soloedTrackId = id
    \/ soloedTrackId = NoSolo /\ id \notin mutedTracks

\* the tracks that sound in a set of trigger events
Sounding(trig) == {ev.track : ev \in trig}

\* the tracks that are audible and whose local step, for step number n, is active
Expected(n) ==
    {id \in TrackIds : /\ Audible(id)
                       /\ tracks[id].steps[n % tracks[id].patternLength].active}

\* C3: at every scheduled step, in the real-time scheduler and in the offline
\* render alike, a voice is triggered only for an audible track, and an
\* audible track triggers exactly when its local step is active.
C3_OnlyAudibleTracksSound ==
    /\ last.cmd = "tick" =>
          \A i \in DOMAIN last.steps :
              Sounding(last.steps[i].trig) = Expected(last.steps[i].globalStep)
    /\ last.cmd = "render" =>
          \A i \in DOMAIN last.events : Sounding(last.events[i].trig) = Expected(i)

\* C10: the stop that an export request issues while the scheduler is
\* already Stopped is a no-op: the scheduler stays Stopped, no interval is
\* started, the step readout stays -1 and the event cursor is not moved.
C10_StopWhenStoppedIsNoOp ==
    [][(last'.cmd = "export" /\ ~isPlaying) =>
          /\ ~isPlaying' /\ ~schedulerTimer'.set /\ currentStep' = -1
          /\ UNCHANGED <<nextNoteTime, run>>]_vars

\* an export was requested while Stopped
C10_Witness == last.cmd = "export" /\ ~last.wasPlaying /\ ~isPlaying

(***************************************************************************)
(* RunSpec: runs of the scheduler over a pattern that was set up before    *)
(* playback; tempo and pattern stay as they are during the run             *)
(***************************************************************************)
\* steps 0 of tracks 0 and 1 switched on, track 1 shortened to 12 steps
RunTable == patternLengthChange(stepClick(stepClick(INITIAL_TRACKS, 0, 0), 1, 0), 1, 12)
RunBpms == {150, 240}

RunInit ==
    /\ isPlaying = FALSE
    /\ bpm \in RunBpms
    /\ globalFxParams = INITIAL_GLOBAL_FX
    /\ tracks = RunTable
    /\ currentStep = -1
    /\ selectedTrackId = 0
    /\ mutedTracks = {}
    /\ soloedTrackId = NoSolo
    /\ pLockModeActive = FALSE
    /\ pLockEditStep = NoEdit
    /\ schedulerTimer = NoTimer
    /\ intervals = << >>
    /\ engineFx = engineFxOf(globalFxParams, bpm)
    /\ fxEffectQueued = FALSE
    /\ nextNoteTime = BZero
    /\ clock = 0
    /\ run = NoRun
    /\ exportJob = NoJob
    /\ mounted = TRUE
    /\ last = [cmd |-> "none"]

RunNext ==
    \/ \E d \in RunClockSteps : AdvanceClock(d, MaxClock)
    \/ togglePlayback
    \/ Tick

RunSpec == RunInit /\ [][RunNext]_vars

\* the steps of the latest tick
TickSteps == IF last.cmd = "tick" THEN {last.steps[i] : i \in DOMAIN last.steps} ELSE {}

\* C2: in the real-time scheduler the local step a track of pattern length L
\* plays at the n-th scheduled step, n counted from a step whose global step
\* is 0, is n mod L; a length-12 track and a length-16 track play their step
\* 0 together exactly at steps 0, 48, 96, ...  (Stated for the steps whose
\* published global step is n mod 16, so that a miscounted global step is
\* not held against the local one.)
C2_LocalStepIsNModL ==
    \A s \in TickSteps :
        (run.anchor >= 0 /\ s.k >= run.anchor /\ s.globalStep = (s.k - run.anchor) % 16) =>
            LET n == s.k - run.anchor
            IN  /\ \A id \in DOMAIN s.local : s.local[id] = n % tracks[id].patternLength
                /\ \A a, b \in DOMAIN s.local :
                      (tracks[a].patternLength = 12 /\ tracks[b].patternLength = 16) =>
                          ((s.local[a] = 0 /\ s.local[b] = 0) <=> n % 48 = 0)

\* |a - b| is below 2^-40 s, far less than one sample period
Close(a, b) ==
    LET diff == IF BLess(a, b) THEN BSub(b, a) ELSE BSub(a, b)
    IN  BLess(diff, <<0, 4, 0, 0, 0>>)

\* C5: for a run at constant bpm, at the end of every tick the cursor is at
\* or after now + 0.1 s; the k-th scheduled event time is start + k x
\* stepDuration, with no k missing and none scheduled twice, and the global
\* step indices advance by 1 modulo 16, however late a tick fires.
C5_StepsAdvanceByOne ==
    last.cmd = "tick" =>
        /\ ~BLess(nextNoteTime, FAdd(ClockTime(clock), scheduleAheadTime))
        /\ \A i \in DOMAIN last.steps :
              LET s == last.steps[i]
              IN  /\ s.k = run.count - Len(last.steps) + i - 1
                  /\ Close(s.time, BAdd(run.start, BMulSmall(stepTimeOf(bpm), s.k)))
                  /\ s.globalStep = (run.first + s.k) % 16

\* what a set of trigger events plays: track, local step, note, velocity, lock
Played(trig) ==
    {[track |-> ev.track, step |-> ev.step, note |-> ev.note,
      velocity |-> ev.velocity, pLocks |-> ev.pLocks] : ev \in trig}

\* C6: for the same track table, bpm, mute set and solo track, the i-th step
\* of the offline render, i in 0..63, triggers the same set of (track, local
\* step, note, velocity, lock) as the i-th step the real-time scheduler
\* schedules when it is started at audio-clock time 0.
C6_OfflineMatchesRealTime ==
    \A s \in TickSteps :
        (run.start = BZero /\ s.k < numSteps) =>
            Played(s.trig) =
                Played(exportStep(tracks, mutedTracks, soloedTrackId, s.k,
                                  FMulSmall(stepTimeOf(bpm), s.k)))

(***************************************************************************)
(* EditSpec: the parameter editor, with and without P-LOCK mode            *)
(***************************************************************************)
EditTracks == {0, 2}
EditSteps == {3}

EditNext ==
    \/ \E t \in EditTracks : onTrackSelect(t)
    \/ onPLockToggle
    \/ \E t \in EditTracks, st \in EditSteps : handleStepClick(t, st)
    \/ \E e \in ParamEdits : handleParamChange(e[1], e[2])

EditSpec == Init /\ [][EditNext]_vars

\* what a trigger of step st of a track resolves to
Resolved(track, st) ==
    trigger(track, track.steps[st].pLocks, BZero, track.defaultNote, track.steps[st].velocity)

\* a step without a lock resolves to the base values of its track
UnlockedResolveToBase ==
    \A id \in TrackIds, st \in StepIdx :
        tracks[id].steps[st].pLocks = NoLocks =>
            /\ Resolved(tracks[id], st).params = tracks[id].params
            /\ Resolved(tracks[id], st).volume = tracks[id].volume
            /\ Resolved(tracks[id], st).fxSends = tracks[id].fxSends

\* a lock edit leaves every base value and every other step as it was, and
\* the edited step resolves to the locked value
LockEditFrame ==
    (last'.cmd = "param" /\ pLockModeActive /\ pLockEditStep.set) =>
        /\ \A id \in TrackIds :
              /\ tracks'[id].params = tracks[id].params
              /\ tracks'[id].volume = tracks[id].volume
              /\ tracks'[id].fxSends = tracks[id].fxSends
              /\ \A st \in StepIdx :
                    (id # selectedTrackId \/ st # pLockEditStep.stepIndex) =>
                        tracks'[id].steps[st] = tracks[id].steps[st]
        /\ Resolved(tracks'[selectedTrackId], pLockEditStep.stepIndex).params[last'.param]
               = last'.value

\* C4: creating or editing a parameter lock on step s of a track never
\* changes the track's base params, volume or FX sends, nor any other step;
\* every trigger of a step without a lock resolves to exactly the base
\* params, volume and FX sends, and only triggers of step s see the lock.
C4_LockTouchesOnlyItsStep == []UnlockedResolveToBase /\ [][LockEditFrame]_vars

\* a lock was just written: its step resolves differently from the base,
\* another step of the same track has no lock
C4_Witness ==
    /\ last.cmd = "param" /\ pLockModeActive /\ pLockEditStep.set
    /\ LET track == tracks[selectedTrackId]
           st == pLockEditStep.stepIndex
       IN  /\ track.steps[st].pLocks # NoLocks
           /\ Resolved(track, st).params # track.params
           /\ \E other \in StepIdx : other # st /\ track.steps[other].pLocks = NoLocks

(***************************************************************************)
(* MixSpec: the mute and solo buttons of the mixer                         *)
(***************************************************************************)
MixNext ==
    \/ \E t \in 0..MaxMixTrack : handleMuteToggle(t)
    \/ \E t \in 0..MaxMixTrack : handleSoloToggle(t)

MixSpec == Init /\ [][MixNext]_vars

\* at most one track is soloed; without a solo track, audible means not muted
SoloExclusive ==
    /\ Cardinality({id \in TrackIds : soloedTrackId # NoSolo /\ soloedTrackId = id}) <= 1
    /\ soloedTrackId # NoSolo =>
          \A id \in TrackIds : isAudible(tracks[id], mutedTracks, soloedTrackId) <=> id = soloedTrackId
    /\ soloedTrackId = NoSolo =>
          \A id \in TrackIds : isAudible(tracks[id], mutedTracks, soloedTrackId) <=> id \notin mutedTracks

ToggleEffect ==
    /\ last'.cmd = "solo" =>
          /\ soloedTrackId = last'.trackId => soloedTrackId' = NoSolo
          /\ soloedTrackId # last'.trackId => soloedTrackId' = last'.trackId
          /\ mutedTracks' = mutedTracks
    /\ last'.cmd = "mute" =>
          /\ soloedTrackId' = soloedTrackId
          /\ \A id \in TrackIds :
                id \in mutedTracks' <=> (id \in mutedTracks) # (id = last'.trackId)

\* C8: at most one track is soloed; a solo toggle on the soloed track clears
\* solo, on another track it moves solo there; a solo toggle never changes
\* the mute set and a mute toggle never changes the solo track, so once solo
\* is cleared a track is audible iff it is not muted.
C8_SoloAndMuteAreIndependent == []SoloExclusive /\ [][ToggleEffect]_vars

\* solo was just cleared while a track is muted and another is not
C8_Witness ==
    /\ last.cmd = "solo" /\ soloedTrackId = NoSolo
    /\ \E a, b \in TrackIds : a \in mutedTracks /\ b \notin mutedTracks /\ b = last.trackId

(***************************************************************************)
(* ResolveSpec: AudioEngine.trigger applied to a track and a lock          *)
(***************************************************************************)
\* the parts a lock is put together from; << >> stands for an absent part.
\* The second own-kind group holds a filter sub-record without a resonance.
OwnGroups(track) ==
    {EmptyRec,
     Single(paramsKey(track.type), Single(LeafEdit(track.type)[1], 7)),
     Single(paramsKey(track.type), [filter |-> [type |-> "highpass", cutoff |-> 50000],
                                    lfo1 |-> [NEUTRAL_LFO EXCEPT !.depth = 5000]])}
ForeignGroups(track) ==
    {EmptyRec,
     Single(IF track.type = "kick" THEN "hatParams" ELSE "kickParams",
            [decay |-> 99, filter |-> [type |-> "notch", cutoff |-> 1, resonance |-> 1]])}
VolumeLocks == {EmptyRec, [volume |-> 0], [volume |-> 50]}
SendLocks == {EmptyRec, [fxSends |-> [reverb |-> 90]], [fxSends |-> [delay |-> 0, drive |-> 70]]}

LockInputs(track) ==
    {NoLocks} \cup
    {Spread(Spread(own, foreign), Spread(vol, sends)) :
        own \in OwnGroups(track), foreign \in ForeignGroups(track),
        vol \in VolumeLocks, sends \in SendLocks}

ResolveInit ==
    /\ isPlaying = FALSE
    /\ bpm = 120
    /\ globalFxParams = INITIAL_GLOBAL_FX
    /\ tracks = INITIAL_TRACKS
    /\ currentStep = -1
    /\ selectedTrackId = 0
    /\ mutedTracks = {}
    /\ soloedTrackId = NoSolo
    /\ pLockModeActive = FALSE
    /\ pLockEditStep = NoEdit
    /\ schedulerTimer = NoTimer
    /\ intervals = << >>
    /\ engineFx = engineFxOf(globalFxParams, bpm)
    /\ fxEffectQueued = FALSE
    /\ nextNoteTime = BZero
    /\ clock = 0
    /\ run = NoRun
    /\ exportJob = NoJob
    /\ mounted = TRUE
    /\ \E id \in TrackIds : \E pLocks \in LockInputs(INITIAL_TRACKS[id]) :
          last = [cmd |-> "input", trackId |-> id, pLocks |-> pLocks]

\* audioEngine.trigger(track, pLocks, time, note, velocity)
Trigger ==
    /\ last.cmd = "input"
    /\ last' = [cmd |-> "trigger", trackId |-> last.trackId, pLocks |-> last.pLocks,
                voice |-> trigger(tracks[last.trackId], last.pLocks, ClockTime(clock),
                                  tracks[last.trackId].defaultNote, 100)]
    /\ UNCHANGED <<bpm, globalFxParams, engineFx, fxEffectQueued, editVars, mixVars, playVars, clock>>

ResolveNext == Trigger

ResolveSpec == ResolveInit /\ [][ResolveNext]_vars

Defines(pLocks, key) == pLocks # NoLocks /\ key \in DOMAIN pLocks

\* the lock without the groups of other instrument kinds
OwnPart(pLocks, type) ==
    IF pLocks = NoLocks THEN NoLocks
    ELSE [k \in (DOMAIN pLocks) \cap {paramsKey(type), "volume", "fxSends"} |-> pLocks[k]]

\* C7: the resolved parameter set of a trigger takes each top-level key of
\* the kind's parameters from the lock's own-kind group if the lock defines
\* it (a locked sub-record replaces the base sub-record whole), else from the
\* track; volume is the lock's if defined, else the track's; each send is the
\* lock's if defined, else the track's; groups of another kind have no effect.
C7_ResolvedParams ==
    last.cmd = "trigger" =>
        LET track == tracks[last.trackId]
            lock == last.pLocks
            own == paramsKey(track.type)
        IN  /\ \A k \in DOMAIN track.params :
                  last.voice.params[k] =
                      IF Defines(lock, own) /\ k \in DOMAIN lock[own]
                      THEN lock[own][k] ELSE track.params[k]
            /\ last.voice.volume =
                  IF Defines(lock, "volume") THEN lock.volume ELSE track.volume
            /\ \A ch \in {"reverb", "delay", "drive"} :
                  last.voice.fxSends[ch] =
                      IF Defines(lock, "fxSends") /\ ch \in DOMAIN lock.fxSends
                      THEN lock.fxSends[ch] ELSE track.fxSends[ch]
            /\ last.voice = trigger(track, OwnPart(lock, track.type), ClockTime(clock),
                                    track.defaultNote, 100)

\* a poly trigger whose lock has a filter sub-record, a group of another
\* kind, a volume of 0 and two of the three sends
C7_Witness ==
    /\ last.cmd = "trigger" /\ tracks[last.trackId].type = "poly"
    /\ Defines(last.pLocks, "polyParams") /\ "filter" \in DOMAIN last.pLocks.polyParams
    /\ Defines(last.pLocks, "kickParams")
    /\ Defines(last.pLocks, "volume") /\ last.pLocks.volume = 0
    /\ Defines(last.pLocks, "fxSends") /\ DOMAIN last.pLocks.fxSends = {"delay", "drive"}
    /\ last.voice.params.filter = [type |-> "highpass", cutoff |-> 50000]
    /\ last.voice.volume = 0

(***************************************************************************)
(* NoteSpec: the note-name conversions, applied to drawn inputs.  A note   *)
(* name is a sequence of one-character strings; NaN is the not-a-number    *)
(* value of the arithmetic                                                 *)
(***************************************************************************)
MaxNameLen == 3        \* NoteSpec: drawn note names have up to MaxNameLen characters

NaN == -999           \* stands for the not-a-number value; no number of the program equals it
NOTE_NAMES == <<<<"C">>, <<"C", "#">>, <<"D">>, <<"D", "#">>, <<"E">>, <<"F">>,
                <<"F", "#">>, <<"G">>, <<"G", "#">>, <<"A">>, <<"A", "#">>, <<"B">>>>
DigitChars == <<"0", "1", "2", "3", "4", "5", "6", "7", "8", "9">>

\* the decimal text of an integer, as a template literal prints it
RECURSIVE Digits(_)
Digits(n) == IF n < 10 THEN <<DigitChars[n + 1]>> ELSE Digits(n \div 10) \o <<DigitChars[(n % 10) + 1]>>
IntToChars(n) == IF n < 0 THEN <<"-">> \o Digits(-n) ELSE Digits(n)

midiToNoteName(midi) ==
    IF midi < 0 \/ midi > 127 THEN <<"-", "-", "-">>
    ELSE LET octave == (midi \div 12) - 1
             noteIndex == midi % 12
         IN  NOTE_NAMES[noteIndex + 1] \o IntToChars(octave)

\* parseInt(c, 10) of a one-character string
parseIntChar(c) ==
    IF \E d \in 0..9 : DigitChars[d + 1] = c THEN CHOOSE d \in 0..9 : DigitChars[d + 1] = c ELSE NaN
\* String.prototype.toUpperCase on the letters a..z; every other character
\* of a note name (digits, #, -, upper-case letters) is left as it is
LowerCase ==
    <<"a", "b", "c", "d", "e", "f", "g", "h", "i", "j", "k", "l", "m",
      "n", "o", "p", "q", "r", "s", "t", "u", "v", "w", "x", "y", "z">>
UpperCase ==
    <<"A", "B", "C", "D", "E", "F", "G", "H", "I", "J", "K", "L", "M",
      "N", "O", "P", "Q", "R", "S", "T", "U", "V", "W", "X", "Y", "Z">>
toUpperCase(s) ==
    [i \in DOMAIN s |->
        IF \E j \in DOMAIN LowerCase : LowerCase[j] = s[i]
        THEN UpperCase[CHOOSE j \in DOMAIN LowerCase : LowerCase[j] = s[i]] ELSE s[i]]
\* NOTE_NAMES.indexOf(noteStr)
indexOf(noteStr) ==
    IF \E i \in 0..11 : NOTE_NAMES[i + 1] = noteStr
    THEN CHOOSE i \in 0..11 : NOTE_NAMES[i + 1] = noteStr ELSE -1

noteNameToMidi(name) ==
    IF Len(name) < 2 THEN 60
    ELSE LET octave == parseIntChar(name[Len(name)])
             noteStr == toUpperCase(SubSeq(name, 1, Len(name) - 1))
             noteIndex == indexOf(noteStr)
         IN  IF noteIndex = -1 THEN 60
             ELSE IF octave = NaN THEN NaN
             ELSE (octave + 1) * 12 + noteIndex

\* 440 * Math.pow(2, (midiNote - 69) / 12) in thousandths of a hertz, rounded,
\* for midiNote = 12..131
PitchTable ==
    <<
       16352, 17324, 18354, 19445, 20602, 21827,
       23125, 24500, 25957, 27500, 29135, 30868,
       32703, 34648, 36708, 38891, 41203, 43654,
       46249, 48999, 51913, 55000, 58270, 61735,
       65406, 69296, 73416, 77782, 82407, 87307,
       92499, 97999, 103826, 110000, 116541, 123471,
       130813, 138591, 146832, 155563, 164814, 174614,
       184997, 195998, 207652, 220000, 233082, 246942,
       261626, 277183, 293665, 311127, 329628, 349228,
       369994, 391995, 415305, 440000, 466164, 493883,
       523251, 554365, 587330, 622254, 659255, 698456,
       739989, 783991, 830609, 880000, 932328, 987767,
       1046502, 1108731, 1174659, 1244508, 1318510, 1396913,
       1479978, 1567982, 1661219, 1760000, 1864655, 1975533,
       2093005, 2217461, 2349318, 2489016, 2637020, 2793826,
       2959955, 3135963, 3322438, 3520000, 3729310, 3951066,
       4186009, 4434922, 4698636, 4978032, 5274041, 5587652,
       5919911, 6271927, 6644875, 7040000, 7458620, 7902133,
       8372018, 8869844, 9397273, 9956063, 10548082, 11175303,
       11839822, 12543854, 13289750, 14080000, 14917240, 15804266
    >>
noteToFreq(note) ==
    LET midiNote == noteNameToMidi(note)
    IN  IF midiNote = NaN THEN NaN ELSE PitchTable[midiNote - 11]

\* the drawn inputs: the midi numbers of the PITCH knob and one outside
\* either end, and every name of up to MaxNameLen characters over NameChars
MidiInputs == -1..128
NameChars == {"C", "c", "D", "#", "-", "4", "9", "H"}
NameInputs == UNION {[1..n -> NameChars] : n \in 0..MaxNameLen}

\* the application state after construction, the transient record aside
AppState0 ==
    /\ isPlaying = FALSE
    /\ bpm = 120
    /\ globalFxParams = INITIAL_GLOBAL_FX
    /\ tracks = INITIAL_TRACKS
    /\ currentStep = -1
    /\ selectedTrackId = 0
    /\ mutedTracks = {}
    /\ soloedTrackId = NoSolo
    /\ pLockModeActive = FALSE
    /\ pLockEditStep = NoEdit
    /\ schedulerTimer = NoTimer
    /\ intervals = << >>
    /\ engineFx = engineFxOf(globalFxParams, bpm)
    /\ fxEffectQueued = FALSE
    /\ nextNoteTime = BZero
    /\ clock = 0
    /\ run = NoRun
    /\ exportJob = NoJob
    /\ mounted = TRUE
appVars == <<isPlaying, bpm, globalFxParams, tracks, currentStep, selectedTrackId, mutedTracks, soloedTrackId,
             pLockModeActive, pLockEditStep, schedulerTimer, intervals, engineFx, fxEffectQueued, nextNoteTime,
             clock, run, exportJob, mounted>>

NoteInit ==
    /\ AppState0
    /\ last \in {[cmd |-> "midiInput", midi |-> m] : m \in MidiInputs}
                \cup {[cmd |-> "nameInput", name |-> s] : s \in NameInputs}

\* the PITCH knob's onChange: midiToNoteName(v)
MidiToNoteName ==
    /\ last.cmd = "midiInput"
    /\ last' = [cmd |-> "noteName", midi |-> last.midi, name |-> midiToNoteName(last.midi)]
    /\ UNCHANGED appVars

\* the PITCH knob's value: noteNameToMidi of the name the knob stored
RoundTrip ==
    /\ last.cmd = "noteName"
    /\ last' = [cmd |-> "roundTrip", from |-> last.midi, name |-> last.name,
                midi |-> noteNameToMidi(last.name)]
    /\ UNCHANGED appVars

NoteNameToMidi ==
    /\ last.cmd = "nameInput"
    /\ last' = [cmd |-> "noteMidi", name |-> last.name, midi |-> noteNameToMidi(last.name)]
    /\ UNCHANGED appVars

NoteToFreq ==
    /\ last.cmd = "nameInput"
    /\ last' = [cmd |-> "noteFreq", name |-> last.name, freq |-> noteToFreq(last.name)]
    /\ UNCHANGED appVars

NoteNext == MidiToNoteName \/ RoundTrip \/ NoteNameToMidi \/ NoteToFreq

NoteSpec == NoteInit /\ [][NoteNext]_vars

\* C11: for every midi number m in 0..127, noteNameToMidi(midiToNoteName(m))
\* is m, and two different numbers in 0..127 get different note names.
C11_NoteRoundTrip ==
    /\ (last.cmd = "roundTrip" /\ last.from \in 0..127) => last.midi = last.from
    /\ last.cmd = "noteName" =>
          \A m \in 0..127 : m # last.midi /\ last.midi \in 0..127 => midiToNoteName(m) # last.name

\* C12: a name that is not well formed (empty, a single character, a note
\* part that is none of the 12 note names, or a last character that is no
\* digit) makes noteNameToMidi return 60 and noteToFreq return the
\* frequency of note 60.
WellFormed(name) ==
    /\ Len(name) >= 2
    /\ indexOf(toUpperCase(SubSeq(name, 1, Len(name) - 1))) # -1
    /\ \E d \in 0..9 : DigitChars[d + 1] = name[Len(name)]
C12_MalformedNamesDefault ==
    /\ (last.cmd = "noteMidi" /\ ~WellFormed(last.name)) => last.midi = 60
    /\ (last.cmd = "noteFreq" /\ ~WellFormed(last.name)) => last.freq = PitchTable[60 - 11]

(***************************************************************************)
(* The editing surface: the knob, the handlers it calls, randomize and     *)
(* clear locks.  Track values are in hundredths, global FX values in       *)
(* thousandths, gains in millionths                                        *)
(***************************************************************************)
Min(a, b) == IF a < b THEN a ELSE b
Max(a, b) == IF a > b THEN a ELSE b
\* Math.round(x / step), for x and step > 0 counted in 1/unit: the doubles
\* nearest x / unit and step / unit are divided, the quotient is rounded to a
\* double and Math.round takes the nearest integer, a half going up.  When
\* x is not half way between two multiples of step it is at least 1 / (2 *
\* step) away from half way, far more than the three roundings can move the
\* quotient, and the nearest integer is that of the exact quotient; when it
\* is half way, the roundings of the doubles decide
MathRoundQuot(unit, x, step) ==
    IF (2 * x) % (2 * step) # step THEN (2 * x + step) \div (2 * step)
    ELSE Let(DblQuot2(Dbl(IF x < 0 THEN -x ELSE x, unit), Dbl(step, unit)), LAMBDA q2 :
             IF x > 0 THEN (q2.floor + 1) \div 2 ELSE -(q2.ceil \div 2))
\* Math.round(x / step) * step
RoundTo(unit, x, step) == MathRoundQuot(unit, x, step) * step

\* the place value of the last digit toFixed(fixedPoints) keeps, for a knob
\* whose values are counted in 1/unit: one whole when step >= 1, the second
\* decimal when String(step) has no decimals (step = 0), else the last
\* decimal of step
FixedGrain(unit, step) ==
    IF step >= unit THEN unit
    ELSE IF step = 0 THEN unit \div 100
    ELSE CHOOSE g \in {1, 10, 100, 1000} :
            /\ step % g = 0
            /\ \A h \in {1, 10, 100, 1000} : step % h = 0 => h <= g

\* parseFloat(x.toFixed(fixedPoints)) for the double nearest x / unit: the
\* multiple of grain nearest the double, the larger in magnitude when the
\* double lies half way
toFixed(unit, x, grain) ==
    IF x % grain = 0 THEN x
    ELSE LET a == IF x < 0 THEN -x ELSE x
             r == a % grain
             up == IF 2 * r = grain THEN Dbl(a, unit).cmp >= 0 ELSE 2 * r > grain
             mag == (a \div grain) * grain + (IF up THEN grain ELSE 0)
         IN  IF x < 0 THEN -mag ELSE mag

\* Knob.handleInteractionMove: the value handed to onChange when the drag
\* asks for raw = initialValue + valueChange; the variant does not clamp
handleInteractionMove_noClamp(unit, min, max, step, raw) ==
    LET newValue == IF step > 0 THEN RoundTo(unit, raw, step) ELSE raw
    IN  toFixed(unit, newValue, FixedGrain(unit, step))
handleInteractionMove(unit, min, max, step, raw) ==
    LET newValue == IF step > 0 THEN RoundTo(unit, raw, step) ELSE raw
        clamped == Max(min, Min(max, newValue))
    IN  toFixed(unit, clamped, FixedGrain(unit, step))

\* the knobs of the editing surface: <<unit, min, max, step>>
LENGTH_KNOB == <<1, 1, 16, 1>>
PITCH_KNOB == <<1, 0, 127, 1>>
VEL_KNOB == <<1, 0, 100, 1>>
VOLUME_KNOB == <<100, 0, 200, 1>>
SEND_KNOB == <<100, 0, 100, 1>>
RIFT_FDBK_KNOB == <<100, 0, 9500, 100>>
SCREAM_FDBK_KNOB == <<100, 0, 10000, 100>>
DELAY_FDBK_KNOB == <<1000, 0, 950, 10>>
Turn(knob, raw) == handleInteractionMove(knob[1], knob[2], knob[3], knob[4], raw)

\* a note name as the string the track table stores
RECURSIVE Str(_)
Str(chars) == IF chars = << >> THEN "" ELSE Head(chars) \o Str(Tail(chars))

stepPropertyChange(trs, trackId, stepIndex, prop, value) ==
    [trs EXCEPT ![trackId].steps[stepIndex] = Spread(@, Single(prop, value))]

\* handleClearPLocksForTrack; the variant leaves the velocities as they are
clearPLocksForTrack_keepsVelocity(trs, trackId) ==
    [trs EXCEPT ![trackId].steps =
        [i \in StepIdx |-> [trs[trackId].steps[i] EXCEPT !.pLocks = NoLocks, !.note = NoNote]]]
clearPLocksForTrack(trs, trackId) ==
    [trs EXCEPT ![trackId].steps =
        [i \in StepIdx |->
            [trs[trackId].steps[i] EXCEPT !.pLocks = NoLocks, !.note = NoNote, !.velocity = 100]]]

globalFxChange(params, fx, param, value) ==
    [params EXCEPT ![fx] = Spread(@, Single(param, value))]

volumeChange(trs, trackId, volume) == [trs EXCEPT ![trackId].volume = volume]

fxSendChange(trs, trackId, fx, value) ==
    [trs EXCEPT ![trackId].fxSends = Spread(@, Single(fx, value))]

\* createRandomizedTrack, with the results of its Math.random() calls given
\* by rnd in hundredths: rnd.length, and for each step rnd.active[i],
\* rnd.velocity[i], rnd.note[i], rnd.ghost[i] and rnd.ghostVelocity[i]
melodicScale == <<"C3", "D#3", "F3", "G3", "A#3", "C4", "D#4", "F4", "G4", "A#4", "C5">>
Melodic == {"poly", "bass", "modal", "rift", "grain", "scream"}
\* the variant draws the pattern length from 12..17
createRandomizedTrack_longPattern(track, rnd) ==
    LET newPatternLength ==
            IF track.type = "kick" THEN 16 ELSE 12 + ((rnd.length * 6) \div 100)
        drawn == [i \in StepIdx |->
                    LET isActive == rnd.active[i] > 65
                    IN  [active |-> isActive,
                         pLocks |-> NoLocks,
                         note |-> IF isActive /\ track.type \in Melodic
                                  THEN melodicScale[((rnd.note[i] * Len(melodicScale)) \div 100) + 1]
                                  ELSE NoNote,
                         velocity |-> 60 + ((rnd.velocity[i] * 40) \div 100)]]
        newSteps == IF track.type # "kick" THEN drawn
                    ELSE [i \in StepIdx |->
                            IF i % 4 = 0 THEN [drawn[i] EXCEPT !.active = TRUE, !.velocity = 100]
                            ELSE IF rnd.ghost[i] > 85
                                 THEN [drawn[i] EXCEPT !.active = TRUE,
                                          !.velocity = 30 + ((rnd.ghostVelocity[i] * 30) \div 100)]
                                 ELSE [drawn[i] EXCEPT !.active = FALSE]]
    IN  [track EXCEPT !.steps = newSteps, !.patternLength = newPatternLength]
createRandomizedTrack(track, rnd) ==
    LET newPatternLength ==
            IF track.type = "kick" THEN 16 ELSE 12 + ((rnd.length * 5) \div 100)
        drawn == [i \in StepIdx |->
                    LET isActive == rnd.active[i] > 65
                    IN  [active |-> isActive,
                         pLocks |-> NoLocks,
                         note |-> IF isActive /\ track.type \in Melodic
                                  THEN melodicScale[((rnd.note[i] * Len(melodicScale)) \div 100) + 1]
                                  ELSE NoNote,
                         velocity |-> 60 + ((rnd.velocity[i] * 40) \div 100)]]
        newSteps == IF track.type # "kick" THEN drawn
                    ELSE [i \in StepIdx |->
                            IF i % 4 = 0 THEN [drawn[i] EXCEPT !.active = TRUE, !.velocity = 100]
                            ELSE IF rnd.ghost[i] > 85
                                 THEN [drawn[i] EXCEPT !.active = TRUE,
                                          !.velocity = 30 + ((rnd.ghostVelocity[i] * 30) \div 100)]
                                 ELSE [drawn[i] EXCEPT !.active = FALSE]]
    IN  [track EXCEPT !.steps = newSteps, !.patternLength = newPatternLength]

\* the gains the engine sets in the feedback loops, in millionths
GainUnit == 1000000
riftFeedbackGain(params) == params.feedback * 95
screamFeedbackGain_unclamped(params) == params.feedback * 100
screamFeedbackGain(params) == Min(990000, params.feedback * 100)

\* ---- the commands of the editing surface --------------------------------
\* each knob command is the knob's handleInteractionMove followed by the
\* handler its onChange calls; raw is the value the drag asks for

\* LENGTH knob -> handlePatternLengthChange(selectedTrackId, v)
onLengthKnob(raw) ==
    \E v \in {Turn(LENGTH_KNOB, raw)} :
       /\ tracks' = patternLengthChange(tracks, selectedTrackId, v)
       /\ last' = [cmd |-> "knob", knob |-> "length", raw |-> raw, value |-> v]
       /\ UNCHANGED <<bpm, globalFxParams, engineFx, fxEffectQueued, selectedTrackId, pLockModeActive, pLockEditStep,
                      mixVars, playVars, clock>>

\* VEL knob -> handleStepPropertyChange(trackId, stepIndex, 'velocity', v / 100)
onVelocityKnob(raw) ==
    /\ pLockEditStep.set
    /\ \E v \in {Turn(VEL_KNOB, raw)} :
          /\ tracks' = stepPropertyChange(tracks, pLockEditStep.trackId, pLockEditStep.stepIndex,
                                          "velocity", v)
          /\ last' = [cmd |-> "knob", knob |-> "velocity", raw |-> raw, value |-> v]
    /\ UNCHANGED <<bpm, globalFxParams, engineFx, fxEffectQueued, selectedTrackId, pLockModeActive, pLockEditStep,
                   mixVars, playVars, clock>>

\* PITCH knob -> handleStepPropertyChange(trackId, stepIndex, 'note', midiToNoteName(v))
onPitchKnob(raw) ==
    /\ pLockEditStep.set
    /\ \E v \in {Turn(PITCH_KNOB, raw)} :
          /\ tracks' = stepPropertyChange(tracks, pLockEditStep.trackId, pLockEditStep.stepIndex,
                                          "note", Str(midiToNoteName(v)))
          /\ last' = [cmd |-> "knob", knob |-> "pitch", raw |-> raw, value |-> v]
    /\ UNCHANGED <<bpm, globalFxParams, engineFx, fxEffectQueued, selectedTrackId, pLockModeActive, pLockEditStep,
                   mixVars, playVars, clock>>

\* the clear button on the PITCH knob, shown while the edited step has a note
\* of its own -> handleStepPropertyChange(trackId, stepIndex, 'note', null)
handleClearNoteLock ==
    /\ pLockEditStep.set
    /\ tracks[pLockEditStep.trackId].steps[pLockEditStep.stepIndex].note # NoNote
    /\ tracks' = stepPropertyChange(tracks, pLockEditStep.trackId, pLockEditStep.stepIndex,
                                    "note", NoNote)
    /\ last' = [cmd |-> "clearNote"]
    /\ UNCHANGED <<bpm, globalFxParams, engineFx, fxEffectQueued, selectedTrackId, pLockModeActive,
                   pLockEditStep, mixVars, playVars, clock>>

\* VOLUME knob of the mixer -> handleVolumeChange(track.id, v)
onVolumeKnob(trackId, raw) ==
    \E v \in {Turn(VOLUME_KNOB, raw)} :
       /\ tracks' = volumeChange(tracks, trackId, v)
       /\ last' = [cmd |-> "knob", knob |-> "volume", raw |-> raw, value |-> v]
       /\ UNCHANGED <<bpm, globalFxParams, engineFx, fxEffectQueued, selectedTrackId, pLockModeActive, pLockEditStep,
                      mixVars, playVars, clock>>

\* REVERB, DELAY and DRIVE knobs of the mixer -> handleFxSendChange(track.id, fx, v)
onSendKnob(trackId, fx, raw) ==
    \E v \in {Turn(SEND_KNOB, raw)} :
       /\ tracks' = fxSendChange(tracks, trackId, fx, v)
       /\ last' = [cmd |-> "knob", knob |-> "send", raw |-> raw, value |-> v]
       /\ UNCHANGED <<bpm, globalFxParams, engineFx, fxEffectQueued, selectedTrackId, pLockModeActive, pLockEditStep,
                      mixVars, playVars, clock>>

\* FDBK knob of the Rift and Scream editors -> handleParamChange('feedback', v)
onFeedbackKnob(raw) ==
    /\ tracks[selectedTrackId].type \in {"rift", "scream"}
    /\ \E v \in {Turn(IF tracks[selectedTrackId].type = "rift" THEN RIFT_FDBK_KNOB
                      ELSE SCREAM_FDBK_KNOB, raw)} :
          /\ tracks' = paramChange(tracks, selectedTrackId, pLockModeActive, pLockEditStep,
                                   "feedback", v)
          /\ last' = [cmd |-> "knob", knob |-> "feedback", raw |-> raw, value |-> v]
    /\ UNCHANGED <<bpm, globalFxParams, engineFx, fxEffectQueued, selectedTrackId, pLockModeActive, pLockEditStep,
                   mixVars, playVars, clock>>

\* FDBK knob of the effects rack -> handleGlobalFxChange('delay', 'feedback', v);
\* the new parameters reach the engine when the effect runs
onDelayFeedbackKnob(raw) ==
    /\ ~fxEffectQueued
    /\ \E v \in {Turn(DELAY_FDBK_KNOB, raw)} :
          /\ globalFxParams' = globalFxChange(globalFxParams, "delay", "feedback", v)
          /\ last' = [cmd |-> "knob", knob |-> "delayFeedback", raw |-> raw, value |-> v]
    /\ fxEffectQueued' = TRUE
    /\ UNCHANGED <<bpm, engineFx, editVars, mixVars, playVars, clock>>

handleClearPLocksForTrack(trackId) ==
    /\ tracks' = clearPLocksForTrack(tracks, trackId)
    /\ last' = [cmd |-> "clear", trackId |-> trackId,
                locked |-> {i \in StepIdx : tracks[trackId].steps[i].pLocks # NoLocks},
                noted |-> {i \in StepIdx : tracks[trackId].steps[i].note # NoNote}]
    /\ UNCHANGED <<bpm, globalFxParams, engineFx, fxEffectQueued, selectedTrackId, pLockModeActive, pLockEditStep,
                   mixVars, playVars, clock>>

handleRandomPattern(trackId, rnd) ==
    /\ tracks' = [id \in TrackIds |->
                    IF id = trackId THEN createRandomizedTrack(tracks[id], rnd) ELSE tracks[id]]
    /\ last' = [cmd |-> "random", trackId |-> trackId]
    /\ UNCHANGED <<bpm, globalFxParams, engineFx, fxEffectQueued, selectedTrackId, pLockModeActive, pLockEditStep,
                   mixVars, playVars, clock>>

handleRandomAll(rnd) ==
    /\ tracks' = [id \in TrackIds |-> createRandomizedTrack(tracks[id], rnd[id])]
    /\ last' = [cmd |-> "randomAll"]
    /\ UNCHANGED <<bpm, globalFxParams, engineFx, fxEffectQueued, selectedTrackId, pLockModeActive, pLockEditStep,
                   mixVars, playVars, clock>>

\* a step of a Rift or Scream track is triggered: the gain its voice sets
\* in the feedback loop
TriggerFeedbackVoice(trackId, stepIndex) ==
    /\ tracks[trackId].type \in {"rift", "scream"}
    /\ LET track == tracks[trackId]
           step == track.steps[stepIndex]
           voice == trigger(track, step.pLocks, ClockTime(clock), step.note, step.velocity)
       IN  last' = [cmd |-> "voice", trackId |-> trackId, stepIndex |-> stepIndex,
                    type |-> voice.type, feedback |-> voice.params.feedback,
                    gain |-> IF voice.type = "rift" THEN riftFeedbackGain(voice.params)
                             ELSE screamFeedbackGain(voice.params)]
    /\ UNCHANGED <<bpm, globalFxParams, engineFx, fxEffectQueued, editVars, mixVars, playVars, clock>>

\* the results of Math.random() fed to createRandomizedTrack: a at the even
\* steps and for the pattern length, b at the odd steps
RandomValues == {0, 60, 70, 90}
Draws(a, b) ==
    LET perStep == [i \in StepIdx |-> IF i % 2 = 0 THEN a ELSE b]
    IN  [length |-> a, active |-> perStep, velocity |-> perStep, note |-> perStep,
         ghost |-> perStep, ghostVelocity |-> perStep]

(***************************************************************************)
(* FeedbackSpec: sessions that turn the feedback knobs, in and out of      *)
(* p-lock mode, and trigger the Rift and Scream voices                     *)
(***************************************************************************)
FeedbackTracks == {5, 7}                     \* the Rift and the Scream track
FeedbackSteps == {3, 5}
FeedbackRaws == {-500, 9949, 12000}          \* what a drag of a FDBK knob asks for
DelayFeedbackRaws == {285, 1200}             \* 0.285 lies half way between two steps of 0.01

FeedbackNext ==
    \/ \E t \in FeedbackTracks : onTrackSelect(t)
    \/ onPLockToggle
    \/ pLockModeActive /\ handleStepClick(5, 3)
    \/ \E raw \in FeedbackRaws : onFeedbackKnob(raw)
    \/ \E raw \in DelayFeedbackRaws : onDelayFeedbackKnob(raw)
    \/ fxEffect
    \/ \E t \in FeedbackTracks : \E s \in FeedbackSteps : TriggerFeedbackVoice(t, s)

FeedbackSpec == Init /\ [][FeedbackNext]_vars

\* C13: every gain the engine sets in a feedback loop is strictly below 1:
\* the Rift loop gain, the Scream loop gain, and the delay feedback gain
\* that updateDelay sets from the current global FX parameters (the one the
\* engine holds, and the one the queued effect is about to set).
C13_FeedbackGainsBelowOne ==
    /\ last.cmd = "voice" => last.gain < GainUnit
    /\ engineFx.delay.delayFeedback < GainUnit
    /\ updateDelay(globalFxParams.delay, bpm).delayFeedback < GainUnit

\* a Scream step was triggered with its feedback locked to the knob's
\* maximum, where only the min(0.99, ...) keeps the gain below 1
C13_Witness ==
    /\ last.cmd = "voice" /\ last.type = "scream" /\ last.feedback = 10000
    /\ tracks[last.trackId].steps[last.stepIndex].pLocks # NoLocks
    /\ tracks[last.trackId].params.feedback # 10000
    /\ globalFxParams.delay.feedback = 950 /\ engineFx.delay.delayFeedback = 950000

(***************************************************************************)
(* PatternSpec: sessions on the pattern editing surface: the length,       *)
(* velocity, pitch, volume and send knobs, step toggles, randomize and     *)
(* clear locks                                                             *)
(***************************************************************************)
PatternTracks == {2}                         \* the Poly track
PatternDraws == {Draws(90, 0)}
LengthRaws == {0, 17}
VelocityRaws == {130}
PitchRaws == {-1}
VolumeRaws == {250}
SendRaws == {150}

PatternNext ==
    \/ \E t \in PatternTracks : onTrackSelect(t)
    \/ onPLockToggle
    \/ handleStepClick(2, 1)
    \/ \E raw \in LengthRaws : onLengthKnob(raw)
    \/ \E raw \in VelocityRaws : onVelocityKnob(raw)
    \/ \E raw \in PitchRaws : onPitchKnob(raw)
    \/ handleClearNoteLock
    \/ \E raw \in VolumeRaws : onVolumeKnob(0, raw)
    \/ \E raw \in SendRaws : onSendKnob(0, "reverb", raw)
    \/ \E rnd \in PatternDraws : handleRandomPattern(selectedTrackId, rnd)
    \/ \E rnd \in PatternDraws : handleRandomAll([id \in TrackIds |-> rnd])
    \/ handleClearPLocksForTrack(selectedTrackId)

PatternSpec == Init /\ [][PatternNext]_vars

\* C14: after any sequence of edits there are still the 8 tracks with
\* their original ids and kinds, each with exactly 16 step slots, a pattern
\* length in 1..16, every step velocity in [0,1] and every FX send in [0,1].
C14_TrackTableShape ==
    /\ DOMAIN tracks = 0..7
    /\ \A id \in DOMAIN tracks :
          /\ tracks[id].id = id
          /\ tracks[id].type = INITIAL_TRACKS[id].type
          /\ DOMAIN tracks[id].steps = 0..15
          /\ tracks[id].patternLength \in 1..16
          /\ \A i \in DOMAIN tracks[id].steps : tracks[id].steps[i].velocity \in 0..100
          /\ DOMAIN tracks[id].fxSends = {"reverb", "delay", "drive"}
          /\ \A fx \in DOMAIN tracks[id].fxSends : tracks[id].fxSends[fx] \in 0..100

\* the velocity knob was dragged past its end on a table that randomize-all
\* had rewritten (pattern length 16 on every track, velocity 0.96 drawn)
C14_Witness ==
    /\ last.cmd = "knob" /\ last.knob = "velocity" /\ last.raw > 100
    /\ \A id \in TrackIds : tracks[id].patternLength = 16
    /\ \E id \in TrackIds : \E i \in StepIdx :
          tracks[id].steps[i].active /\ tracks[id].steps[i].velocity = 96

(***************************************************************************)
(* LockSpec: the edit session of EditSpec with randomize and clear locks   *)
(***************************************************************************)
LockNext ==
    \/ EditNext
    \/ \E rnd \in PatternDraws : handleRandomPattern(selectedTrackId, rnd)
    \/ \E rnd \in PatternDraws : handleRandomAll([id \in TrackIds |-> rnd])
    \/ handleClearPLocksForTrack(selectedTrackId)

LockSpec == Init /\ [][LockNext]_vars

\* C15: after any sequence of edit commands, a step's lock holds a
\* kind-specific parameter group only for the kind of the track that owns
\* the step.
KindGroups == {paramsKey(INITIAL_TRACKS[id].type) : id \in TrackIds}
C15_LocksTargetOwnKind ==
    \A id \in TrackIds : \A i \in StepIdx :
        LET pLocks == tracks[id].steps[i].pLocks
        IN  pLocks # NoLocks =>
               (DOMAIN pLocks) \cap KindGroups \subseteq {paramsKey(tracks[id].type)}

\* a parameter was locked while the selected track was not the track of the
\* step chosen for editing: the lock went to the selected track's step
C15_Witness ==
    /\ last.cmd = "param" /\ pLockModeActive /\ pLockEditStep.set
    /\ pLockEditStep.trackId # selectedTrackId
    /\ tracks[selectedTrackId].steps[pLockEditStep.stepIndex].pLocks # NoLocks
    /\ \E id \in TrackIds : \E i \in StepIdx : tracks[id].steps[i].active

\* C16: clear locks on track T sets lock = none, note = none and velocity =
\* 1.0 on all 16 steps of T and leaves every step's active flag, T's base
\* params, volume, FX sends and pattern length, and every other track as
\* they were.
C16_ClearLocksFrame ==
    [][last'.cmd = "clear" =>
          LET T == last'.trackId
          IN  /\ \A i \in StepIdx :
                    /\ tracks'[T].steps[i].pLocks = NoLocks
                    /\ tracks'[T].steps[i].note = NoNote
                    /\ tracks'[T].steps[i].velocity = 100
                    /\ tracks'[T].steps[i].active = tracks[T].steps[i].active
              /\ tracks'[T].params = tracks[T].params
              /\ tracks'[T].volume = tracks[T].volume
              /\ tracks'[T].fxSends = tracks[T].fxSends
              /\ tracks'[T].patternLength = tracks[T].patternLength
              /\ \A id \in TrackIds \ {T} : tracks'[id] = tracks[id]]_vars

\* locks were cleared on a randomized track that had a locked step and
\* drawn notes, while another track keeps a lock of its own
C16_Witness ==
    /\ last.cmd = "clear" /\ last.locked # {} /\ last.noted # {}
    /\ \E i \in StepIdx : tracks[last.trackId].steps[i].active
    /\ \E id \in TrackIds \ {last.trackId} : \E i \in StepIdx : tracks[id].steps[i].pLocks # NoLocks

(***************************************************************************)
(* ExportSpec: offline exports of a preset pattern at each tempo of the    *)
(* BPM knob                                                                *)
(***************************************************************************)
ExportBpms == 30..250

ExportInit ==
    /\ isPlaying = FALSE
    /\ bpm \in ExportBpms
    /\ globalFxParams = INITIAL_GLOBAL_FX
    /\ tracks = RunTable
    /\ currentStep = -1
    /\ selectedTrackId = 0
    /\ mutedTracks = {}
    /\ soloedTrackId = NoSolo
    /\ pLockModeActive = FALSE
    /\ pLockEditStep = NoEdit
    /\ schedulerTimer = NoTimer
    /\ intervals = << >>
    /\ engineFx = engineFxOf(globalFxParams, bpm)
    /\ fxEffectQueued = FALSE
    /\ nextNoteTime = BZero
    /\ clock = 0
    /\ run = NoRun
    /\ exportJob = NoJob
    /\ mounted = TRUE
    /\ last = [cmd |-> "none"]

ExportNext ==
    \/ Handled /\ ExportWav
    \/ Render(EvenDraws)
    \/ Handled /\ ExportDone

ExportSpec == ExportInit /\ [][ExportNext]_vars

\* C17: for every bpm in 30..250 the export schedules exactly 64 steps, at
\* the times i * (60/bpm/4) for i = 0..63, into a 2-channel 44100 Hz buffer
\* of exactly ceil(64 * (60/bpm/4) * 44100) = ceil(42336000 / bpm) frames;
\* at 120 BPM that is 352800 frames.
C17_ExportLength ==
    last.cmd = "render" =>
        /\ DOMAIN last.events = 0..63
        /\ \A i \in 0..63 : last.events[i].time = FMulSmall(FQuot(15, bpm), i)
        /\ \A i \in 1..63 : BLess(last.events[i - 1].time, last.events[i].time)
        /\ last.buffer.numberOfChannels = 2
        /\ last.buffer.sampleRate = 44100
        /\ last.buffer.length = (42336000 + bpm - 1) \div bpm
        /\ bpm = 120 => last.buffer.length = 352800

\* an export at a tempo whose step time is no double and whose buffer
\* length is no whole number of frames before the ceiling
C17_Witness ==
    /\ last.cmd = "render" /\ bpm = 133
    /\ last.buffer.length = 318316
    /\ \E i \in 0..63 : last.events[i].trig # {}

(***************************************************************************)
(* RenderSpec: repeated exports of one and the same input, with all the    *)
(* draws of RenderDraws for the synthesis graph the offline engine builds  *)
(***************************************************************************)
RenderBpms == {90, 120}

RenderInit ==
    /\ isPlaying = FALSE
    /\ bpm \in RenderBpms
    /\ globalFxParams = INITIAL_GLOBAL_FX
    /\ tracks = RunTable
    /\ currentStep = -1
    /\ selectedTrackId = 0
    /\ mutedTracks = {}
    /\ soloedTrackId = NoSolo
    /\ pLockModeActive = FALSE
    /\ pLockEditStep = NoEdit
    /\ schedulerTimer = NoTimer
    /\ intervals = << >>
    /\ engineFx = engineFxOf(globalFxParams, bpm)
    /\ fxEffectQueued = FALSE
    /\ nextNoteTime = BZero
    /\ clock = 0
    /\ run = NoRun
    /\ exportJob = NoJob
    /\ mounted = TRUE
    /\ last = [cmd |-> "none"]

RenderNext ==
    \/ Handled /\ togglePlayback
    \/ Handled /\ ExportWav
    \/ Render(RenderDraws)
    \/ Handled /\ ExportDone

RenderSpec == RenderInit /\ [][RenderNext]_vars

\* C18: two offline renders of identical track table, global FX
\* parameters, bpm and step count give identical results: the same
\* scheduled voice events and the same synthesis-graph contents (noise
\* buffer, reverb and rumble impulse responses, hat oscillator
\* frequencies).  The second render is one of the inputs of the render
\* just made, which the render has left as they are, with any results of
\* Math.random().
C18_RenderIsDeterministic ==
    last.cmd = "render" =>
        \A rnd \in RenderDraws :
            /\ exportLoop(tracks, bpm, mutedTracks, soloedTrackId) = last.events
            /\ offlineContext(bpm) = last.buffer
            /\ offlineGraph(last.events, globalFxParams, bpm, rnd) = last.graph

(***************************************************************************)
(* audioBufferToWav: the 32-bit float WAV container                        *)
(***************************************************************************)
MaxFrames == 2

\* str.charCodeAt(i) for the characters of the four chunk tags
charCodeAt(ch) ==
    CASE ch = "R" -> 82 [] ch = "I" -> 73 [] ch = "F" -> 70 [] ch = "W" -> 87
      [] ch = "A" -> 65 [] ch = "V" -> 86 [] ch = "E" -> 69 [] ch = "f" -> 102
      [] ch = "m" -> 109 [] ch = "t" -> 116 [] ch = " " -> 32 [] ch = "d" -> 100
      [] ch = "a" -> 97

\* new ArrayBuffer(bufferSize): bufferSize zero bytes, offsets from 0
ArrayBuffer(bufferSize) == [o \in 0..(bufferSize - 1) |-> 0]

\* DataView.setUint8; a write outside the buffer throws
setUint8(view, offset, value) ==
    IF offset \in DOMAIN view THEN [view EXCEPT ![offset] = value % 256] ELSE "RangeError"

\* DataView.setUint16(offset, value, true): low byte first
setUint16(view, offset, value) ==
    setUint8(setUint8(view, offset, value % 256), offset + 1, (value \div 256) % 256)

\* DataView.setUint32(offset, value, true): low byte first
setUint32_bigEndian(view, offset, value) ==
    setUint8(setUint8(setUint8(setUint8(view,
        offset, (value \div 16777216) % 256),
        offset + 1, (value \div 65536) % 256),
        offset + 2, (value \div 256) % 256),
        offset + 3, value % 256)
setUint32(view, offset, value) ==
    setUint8(setUint8(setUint8(setUint8(view,
        offset, value % 256),
        offset + 1, (value \div 256) % 256),
        offset + 2, (value \div 65536) % 256),
        offset + 3, (value \div 16777216) % 256)

\* DataView.setFloat32(offset, value, true): the IEEE-754 single of value,
\* sign bit, 8 exponent bits, 23 fraction bits, low byte first
setFloat32(view, offset, value) ==
    setUint8(setUint8(setUint8(setUint8(view,
        offset, value.fraction % 256),
        offset + 1, (value.fraction \div 256) % 256),
        offset + 2, (value.exponent % 2) * 128 + (value.fraction \div 65536)),
        offset + 3, value.sign * 128 + (value.exponent \div 2))

RECURSIVE writeString(_, _, _)
writeString(view, offset, str) ==
    IF str = << >> THEN view
    ELSE Let(setUint8(view, offset, charCodeAt(Head(str))), LAMBDA written :
             writeString(written, offset + 1, Tail(str)))

\* the PCM loop: frame by frame, channel by channel inside a frame
RECURSIVE writePcm(_, _, _, _, _, _)
writePcm(view, channels, numChannels, numSamples, i, j) ==
    IF i >= numSamples THEN view
    ELSE IF j >= numChannels THEN writePcm(view, channels, numChannels, numSamples, i + 1, 0)
    ELSE Let(setFloat32(view, 44 + (i * numChannels + j) * 4, channels[j + 1][i + 1]), LAMBDA written :
             writePcm(written, channels, numChannels, numSamples, i, j + 1))

\* the header: the RIFF chunk, the "fmt " sub-chunk and the start of "data"
writeHeader(view, numChannels, rate, dataSize) ==
    LET bitsPerSample == 32
        audioFormat == 3
        blockAlign == numChannels * (bitsPerSample \div 8)
        byteRate == rate * blockAlign
    IN  Let(writeString(view, 0, <<"R", "I", "F", "F">>), LAMBDA v1 :
        Let(setUint32(v1, 4, 36 + dataSize), LAMBDA v2 :
        Let(writeString(v2, 8, <<"W", "A", "V", "E">>), LAMBDA v3 :
        Let(writeString(v3, 12, <<"f", "m", "t", " ">>), LAMBDA v4 :
        Let(setUint32(v4, 16, 16), LAMBDA v5 :
        Let(setUint16(v5, 20, audioFormat), LAMBDA v6 :
        Let(setUint16(v6, 22, numChannels), LAMBDA v7 :
        Let(setUint32(v7, 24, rate), LAMBDA v8 :
        Let(setUint32(v8, 28, byteRate), LAMBDA v9 :
        Let(setUint16(v9, 32, blockAlign), LAMBDA v10 :
        Let(setUint16(v10, 34, bitsPerSample), LAMBDA v11 :
        Let(writeString(v11, 36, <<"d", "a", "t", "a">>), LAMBDA v12 :
            setUint32(v12, 40, dataSize)))))))))))))

audioBufferToWav(buffer) ==
    LET numChannels == buffer.numberOfChannels
        numSamples == buffer.length
        dataSize == numChannels * numSamples * (32 \div 8)
        headerSize == 44
    IN  Let(writeHeader(ArrayBuffer(headerSize + dataSize), numChannels, buffer.sampleRate, dataSize),
            LAMBDA view : writePcm(view, buffer.channels, numChannels, numSamples, 0, 0))

\* Float32Array elements: 0.0, 1.0 and -0.1 as IEEE-754 singles
Float32Samples ==
    {[sign |-> 0, exponent |-> 0, fraction |-> 0],
     [sign |-> 0, exponent |-> 127, fraction |-> 0],
     [sign |-> 1, exponent |-> 123, fraction |-> 5033165]}
WavChannels == 1..2
WavRates == {8000, 44100, 96000}
AudioBuffers ==
    UNION {[numberOfChannels : {c}, length : {n}, sampleRate : WavRates,
            channels : [1..c -> [1..n -> Float32Samples]]] :
             <<c, n>> \in WavChannels \X (1..MaxFrames)}

WavInit ==
    /\ AppState0
    /\ last \in {[cmd |-> "rendered", buffer |-> b] : b \in AudioBuffers}

\* handleExportWav after rendering: audioBufferToWav(renderedBuffer)
AudioBufferToWav ==
    /\ last.cmd = "rendered"
    /\ last' = [cmd |-> "wav", buffer |-> last.buffer, bytes |-> audioBufferToWav(last.buffer)]
    /\ UNCHANGED appVars

WavNext == AudioBufferToWav

WavSpec == WavInit /\ [][WavNext]_vars

\* reading the file back: tags as characters, numbers low byte first
TagAt(bytes, o, str) == \A k \in 1..Len(str) : bytes[o + k - 1] = charCodeAt(str[k])
U16At(bytes, o) == bytes[o] + 256 * bytes[o + 1]
U32At(bytes, o) == bytes[o] + 256 * bytes[o + 1] + 65536 * bytes[o + 2] + 16777216 * bytes[o + 3]
F32At(bytes, o) ==
    [sign |-> bytes[o + 3] \div 128,
     exponent |-> (bytes[o + 3] % 128) * 2 + bytes[o + 2] \div 128,
     fraction |-> (bytes[o + 2] % 128) * 65536 + bytes[o + 1] * 256 + bytes[o]]

\* C19: for a buffer of c channels, n frames and rate r the file is exactly
\* 44 + c*n*4 bytes: 'RIFF', chunk size 36 + c*n*4, 'WAVE', 'fmt ' of size
\* 16, format 3, c channels, rate r, byte rate r*c*4, block align c*4, 32
\* bits per sample, 'data' of size c*n*4, and the sample of frame i, channel
\* j at offset 44 + (i*c + j)*4; every multi-byte field is little-endian.
C19_WavLayout ==
    last.cmd = "wav" =>
      LET c == last.buffer.numberOfChannels
          n == last.buffer.length
          r == last.buffer.sampleRate
          bytes == last.bytes
      IN  /\ DOMAIN bytes = 0..(44 + c * n * 4 - 1)
          /\ \A o \in DOMAIN bytes : bytes[o] \in 0..255
          /\ TagAt(bytes, 0, <<"R", "I", "F", "F">>)
          /\ U32At(bytes, 4) = 36 + c * n * 4
          /\ TagAt(bytes, 8, <<"W", "A", "V", "E">>)
          /\ TagAt(bytes, 12, <<"f", "m", "t", " ">>)
          /\ U32At(bytes, 16) = 16
          /\ U16At(bytes, 20) = 3
          /\ U16At(bytes, 22) = c
          /\ U32At(bytes, 24) = r
          /\ U32At(bytes, 28) = r * c * 4
          /\ U16At(bytes, 32) = c * 4
          /\ U16At(bytes, 34) = 32
          /\ TagAt(bytes, 36, <<"d", "a", "t", "a">>)
          /\ U32At(bytes, 40) = c * n * 4
          /\ \A i \in 0..(n - 1), j \in 0..(c - 1) :
                F32At(bytes, 44 + (i * c + j) * 4) = last.buffer.channels[j + 1][i + 1]

\* a stereo buffer of two frames whose four samples are not all alike, at a
\* rate that fills more than two bytes of its field, has been converted
C19_Witness ==
    /\ last.cmd = "wav"
    /\ last.buffer.numberOfChannels = 2
    /\ last.buffer.length = 2
    /\ last.buffer.sampleRate = 96000
    /\ last.buffer.channels[1][1] # last.buffer.channels[2][1]
    /\ last.buffer.channels[1][2] # last.buffer.channels[1][1]
    /\ last.bytes[47] = 0 /\ last.bytes[51] # 0

(***************************************************************************)
(* ClampSpec: knobs dragged past either end of their range on the Rift     *)
(* track, and the scheduler and engine reading what was stored             *)
(***************************************************************************)
ClampLengthRaws == {0, 17}
ClampVelocityRaws == {-20, 130}
ClampSendRaws == {-50, 150}
ClampFeedbackRaws == {-500, 12000}
ClampDelayRaws == {-100, 1200}

\* the session starts on the Rift track, 1.875 s after the audio context
\* was made: at 120 BPM the scheduler starts with global step 15
ClampClock == 30
ClampInit ==
    /\ isPlaying = FALSE
    /\ bpm = 120
    /\ globalFxParams = INITIAL_GLOBAL_FX
    /\ tracks = INITIAL_TRACKS
    /\ currentStep = -1
    /\ selectedTrackId = 5
    /\ mutedTracks = {}
    /\ soloedTrackId = NoSolo
    /\ pLockModeActive = FALSE
    /\ pLockEditStep = NoEdit
    /\ schedulerTimer = NoTimer
    /\ intervals = << >>
    /\ engineFx = engineFxOf(globalFxParams, bpm)
    /\ fxEffectQueued = FALSE
    /\ nextNoteTime = BZero
    /\ clock = ClampClock
    /\ run = NoRun
    /\ exportJob = NoJob
    /\ mounted = TRUE
    /\ last = [cmd |-> "none"]

\* the knobs are dragged while the sequencer is stopped; playback is then
\* started and the interval runs scheduleNotes
ClampNext ==
    \/ ~isPlaying /\ onPLockToggle
    \/ ~isPlaying /\ handleStepClick(5, 0)
    \/ ~isPlaying /\ \E raw \in ClampLengthRaws : onLengthKnob(raw)
    \/ ~isPlaying /\ \E raw \in ClampVelocityRaws : onVelocityKnob(raw)
    \/ ~isPlaying /\ \E raw \in ClampSendRaws : onSendKnob(5, "delay", raw)
    \/ ~isPlaying /\ \E raw \in ClampFeedbackRaws : onFeedbackKnob(raw)
    \/ ~isPlaying /\ \E raw \in ClampDelayRaws : onDelayFeedbackKnob(raw)
    \/ fxEffect
    \/ togglePlayback
    \/ Tick

ClampSpec == ClampInit /\ [][ClampNext]_vars

RiftFeedbacks(track) ==
    {track.params.feedback}
      \cup {track.steps[i].pLocks.riftParams.feedback :
              i \in {j \in StepIdx : /\ track.steps[j].pLocks # NoLocks
                                     /\ "riftParams" \in DOMAIN track.steps[j].pLocks
                                     /\ "feedback" \in DOMAIN track.steps[j].pLocks.riftParams}}

\* C20: whatever value a control is dragged to, the value stored lies in the
\* control's domain (pattern length 1..16, velocity and FX sends 0..1, delay
\* feedback 0..0.95, Rift feedback 0..95, base value and locks alike), and
\* so does what the scheduler and the engine then read: the local step
\* index, the velocity and sends of a triggered voice, the Rift loop gain
\* (at most 0.9025) and the delay feedback gain (at most 0.95).
C20_ControlsStayInDomain ==
    /\ \A id \in TrackIds :
          /\ tracks[id].patternLength \in 1..16
          /\ \A i \in StepIdx : tracks[id].steps[i].velocity \in 0..100
          /\ \A fx \in {"reverb", "delay", "drive"} : tracks[id].fxSends[fx] \in 0..100
          /\ tracks[id].type = "rift" => RiftFeedbacks(tracks[id]) \subseteq 0..9500
    /\ globalFxParams.delay.feedback \in 0..950
    /\ updateDelay(globalFxParams.delay, bpm).delayFeedback \in 0..950000
    /\ engineFx.delay.delayFeedback \in 0..950000
    /\ last.cmd = "knob" =>
          CASE last.knob = "length" -> last.value \in 1..16
            [] last.knob \in {"velocity", "send"} -> last.value \in 0..100
            [] last.knob = "delayFeedback" -> last.value \in 0..950
            [] last.knob = "feedback" /\ tracks[selectedTrackId].type = "rift" -> last.value \in 0..9500
            [] OTHER -> TRUE
    /\ last.cmd = "tick" =>
          \A i \in DOMAIN last.steps :
             LET s == last.steps[i]
             IN  /\ \A id \in DOMAIN s.local :
                       s.local[id] \in 0..(schedulerTimer.tracks[id].patternLength - 1)
                 /\ \A e \in s.trig :
                       /\ e.voice.velocity \in 0..100
                       /\ \A fx \in {"reverb", "delay", "drive"} : e.voice.fxSends[fx] \in 0..100
                       /\ e.voice.type = "rift" =>
                             /\ e.voice.params.feedback \in 0..9500
                             /\ riftFeedbackGain(e.voice.params) \in 0..902500

\* a tick of the scheduler read, at global step 15, step 0 of the Rift
\* track, shortened to one step by a length dragged below 1, and triggered
\* it with the velocity dragged above 1, the send below 0 and the locked
\* feedback above 95 all held at their ends, after the delay feedback was
\* dragged past 0.95
C20_Witness ==
    /\ last.cmd = "tick"
    /\ tracks[5].patternLength = 1
    /\ \E i \in DOMAIN last.steps :
          /\ last.steps[i].globalStep = 15 /\ last.steps[i].local[5] = 0
          /\ \E e \in last.steps[i].trig :
                /\ e.track = 5 /\ e.voice.velocity = 100 /\ e.voice.fxSends.delay = 0
                /\ e.voice.params.feedback = 9500 /\ tracks[5].params.feedback # 9500
                /\ riftFeedbackGain(e.voice.params) = 902500
    /\ globalFxParams.delay.feedback = 950 /\ engineFx.delay.delayFeedback = 950000

(***************************************************************************)
(* The trigger times of a tick against the audio clock                     *)
(***************************************************************************)
\* C21: every voice a tick of the real-time scheduler triggers has a
\* trigger time that is not earlier than the audio clock when the tick
\* runs, the first step after a start and the steps of a late tick
\* included.
C21_TriggerNotInPast ==
    last.cmd = "tick" =>
      \A i \in DOMAIN last.steps : \A e \in last.steps[i].trig :
         ~BLess(e.voice.time, ClockTime(clock))

(***************************************************************************)
(* TimerSpec: the lookahead interval over toggles, exports and unmount     *)
(***************************************************************************)
MaxIntervals == 3

\* the play button's handler called twice by one render: both calls run the
\* same togglePlayback closure, so both read the same isPlaying.  When that
\* is true the second call finds schedulerTimer.current null; when it is
\* false the second call starts a second interval and overwrites the handle
togglePlaybackTwice ==
    /\ Len(intervals) + 2 <= MaxIntervals
    /\ IF isPlaying
       THEN stopPlayback
       ELSE /\ nextNoteTime' = ClockTime(clock)
            /\ isPlaying' = TRUE
            /\ schedulerTimer' = Closure
            /\ intervals' = intervals \o <<Closure, Closure>>
            /\ run' = [NoRun EXCEPT !.start = ClockTime(clock)]
            /\ UNCHANGED currentStep
    /\ last' = [cmd |-> "toggleTwice", wasPlaying |-> isPlaying]
    /\ UNCHANGED <<bpm, globalFxParams, engineFx, fxEffectQueued, editVars, mixVars, exportJob, mounted, clock>>

\* the cleanup of the mount effect: the interval of the handle is cleared
\* (the handle itself is left in the ref) and the context is closed.  The
\* handlers of the page are gone with the component and the clock of the
\* closed context stands; an interval that was not cleared still fires, and
\* a rendering that was started still finishes
Unmount ==
    /\ intervals' = clearInterval(schedulerTimer, intervals)
    /\ mounted' = FALSE
    /\ last' = [cmd |-> "unmount"]
    /\ UNCHANGED <<isPlaying, currentStep, schedulerTimer, nextNoteTime, run,
                   bpm, globalFxParams, engineFx, fxEffectQueued, editVars, mixVars, exportJob, clock>>

TimerNext ==
    \/ mounted /\ Handled /\ \E d \in LiveClockSteps : AdvanceClock(d, MaxLiveClock)
    \/ mounted /\ Handled /\ togglePlayback
    \/ mounted /\ Handled /\ togglePlaybackTwice
    \/ Handled /\ Tick
    \/ mounted /\ Handled /\ \E b \in LiveBpms : SetBpm(b)
    \/ mounted /\ Handled /\ fxEffect
    \/ mounted /\ Handled /\ ExportWav
    \/ Render(EvenDraws)
    \/ Handled /\ ExportDone
    \/ mounted /\ Handled /\ Unmount

TimerSpec == Init /\ [][TimerNext]_vars

\* C22: at every moment at most one interval timer is running, and one is
\* running iff the scheduler is Running (playing, and still mounted): no
\* timer is left running that the handle in schedulerTimer does not name.
C22_OneTimerIffRunning ==
    /\ Len(intervals) <= 1
    /\ Len(intervals) = 1 <=> (isPlaying /\ mounted)
    /\ (mounted /\ intervals # << >>) => schedulerTimer.set

\* C9: whenever the scheduler is Stopped the published step is -1 and no
\* interval is left to publish a step; a tick fires only while Running and
\* publishes steps in 0..15; a Stopped->Running transition sets the event
\* cursor to the audio clock's current time.
C9_StoppedState ==
    /\ ~isPlaying => currentStep = -1 /\ ~schedulerTimer.set
    /\ isPlaying => currentStep \in -1..15
    /\ last.cmd = "tick" =>
          /\ isPlaying
          /\ \A i \in DOMAIN last.steps : last.steps[i].globalStep \in 0..15
          /\ last.steps # << >> => currentStep \in 0..15
C9_StoppedPublishesNone ==
    /\ []C9_StoppedState
    /\ [][(~isPlaying /\ isPlaying') => nextNoteTime' = ClockTime(clock)]_vars

(***************************************************************************)
(* The step a lock edit writes                                             *)
(***************************************************************************)
\* C23: in p-lock mode with a step selected for editing, a parameter edit
\* writes the lock of the step pLockEditStep.stepIndex of the track
\* pLockEditStep.trackId and changes no other track and no other step, also
\* when the track selected in the editor is another one.
C23_LockEditWritesSelectedStep ==
    [][(last'.cmd = "param" /\ pLockModeActive /\ pLockEditStep.set) =>
          /\ tracks'[pLockEditStep.trackId].steps[pLockEditStep.stepIndex].pLocks # NoLocks
          /\ \A id \in TrackIds :
                /\ id # pLockEditStep.trackId => tracks'[id] = tracks[id]
                /\ \A st \in StepIdx :
                      st # pLockEditStep.stepIndex => tracks'[id].steps[st] = tracks[id].steps[st]]_vars

(***************************************************************************)
(* NestedSpec: the filter and LFO sections of the instrument editors       *)
(***************************************************************************)
\* the FILTER section of every editor but the Poly one
onFilterSection(field, value) ==
    /\ tracks[selectedTrackId].type # "poly"
    /\ \E e \in {filterHandleChange(tracks[selectedTrackId].params, field, value)} :
          tracks' = paramChange(tracks, selectedTrackId, pLockModeActive, pLockEditStep, e[1], e[2])
    /\ last' = [cmd |-> "nested", section |-> "FilterSection", top |-> "filter", field |-> field]
    /\ UNCHANGED <<bpm, globalFxParams, engineFx, fxEffectQueued, selectedTrackId, pLockModeActive, pLockEditStep,
                   mixVars, playVars, clock>>

\* the LFO 1 and LFO 2 sections of every editor
onLFOSection(lfoKey, field, value) ==
    /\ \E e \in {lfoHandleChange(tracks[selectedTrackId].params, lfoKey, field, value)} :
          tracks' = paramChange(tracks, selectedTrackId, pLockModeActive, pLockEditStep, e[1], e[2])
    /\ last' = [cmd |-> "nested", section |-> "LFOSection", top |-> lfoKey, field |-> field]
    /\ UNCHANGED <<bpm, globalFxParams, engineFx, fxEffectQueued, selectedTrackId, pLockModeActive, pLockEditStep,
                   mixVars, playVars, clock>>

\* the FILTER knobs of the Poly editor
onNestedChange(topLevel, nested, value) ==
    /\ tracks[selectedTrackId].type = "poly"
    /\ \E e \in {handleNestedChange(tracks[selectedTrackId], editorPLocks, topLevel, nested, value)} :
          tracks' = paramChange(tracks, selectedTrackId, pLockModeActive, pLockEditStep, e[1], e[2])
    /\ last' = [cmd |-> "nested", section |-> "handleNestedChange", top |-> topLevel, field |-> nested]
    /\ UNCHANGED <<bpm, globalFxParams, engineFx, fxEffectQueued, selectedTrackId, pLockModeActive, pLockEditStep,
                   mixVars, playVars, clock>>

NestedTracks == {0, 2}                       \* Kick and Poly
FilterFields == {<<"cutoff", 100000>>, <<"type", "highpass">>}
LfoFields == {<<"depth", 300>>, <<"destination", "pitch">>}

\* the session edits the locks of a step: the section knobs are turned
\* while P-LOCK mode is on and a step is selected for editing
NestedNext ==
    \/ \E t \in NestedTracks : onTrackSelect(t)
    \/ onPLockToggle
    \/ \E t \in NestedTracks : handleStepClick(t, 3)
    \/ pLockModeActive /\ pLockEditStep.set /\ \E f \in FilterFields : onFilterSection(f[1], f[2])
    \/ pLockModeActive /\ pLockEditStep.set /\ \E f \in LfoFields : onLFOSection("lfo1", f[1], f[2])
    \/ pLockModeActive /\ pLockEditStep.set /\ \E f \in FilterFields : onNestedChange("filter", f[1], f[2])

NestedSpec == Init /\ [][NestedNext]_vars

\* C24: in p-lock mode, editing one field of a filter or LFO sub-record on
\* a step whose lock already holds that sub-record keeps every other field
\* of the locked sub-record as it was: cutoff locked first and type locked
\* second leaves both in the lock's filter (likewise for lfo1 and lfo2).
C24_NestedLockKeepsFields ==
    [][(/\ last'.cmd = "nested" /\ pLockModeActive /\ pLockEditStep.set
        /\ pLockEditStep.trackId = selectedTrackId) =>
          LET key == paramsKey(tracks[selectedTrackId].type)
              st == pLockEditStep.stepIndex
              old == LockGroup(tracks[selectedTrackId].steps[st].pLocks, key)
              new == LockGroup(tracks'[selectedTrackId].steps[st].pLocks, key)
          IN  last'.top \in DOMAIN old =>
                \A f \in DOMAIN old[last'.top] \ {last'.field} :
                    new[last'.top][f] = old[last'.top][f]]_vars

(***************************************************************************)
(* The node graph of a voice: what every create<Kind>Voice builds after    *)
(* it has resolved its parameters.  A graph holds the connections made     *)
(* (edges from a node to a node, or to a parameter of a node written       *)
(* "node.param"), the sources started, each with the time of its start     *)
(* and of its scheduled stop, and the LFOs.  Times are offsets from the    *)
(* trigger time, in milliseconds; Never is a stop that was not scheduled.  *)
(***************************************************************************)
Never == -1
Undefined == "undefined"
Src(node, start, stop) == [node |-> node, start |-> start, stop |-> stop]
Indexed(name, i) == name \o Str(Digits(i))

FxInput == [reverb |-> "reverbPreDelay", delay |-> "delay", drive |-> "drive"]
FxSendGain == [reverb |-> "reverbSend", delay |-> "delaySend", drive |-> "driveSend"]

\* connectToFX(sourceNode, fxSends): a gain g per send above 0
connectToFX(sourceNode, fxSends) ==
    UNION {IF fxSends[fx] > 0
           THEN {<<sourceNode, FxSendGain[fx]>>, <<FxSendGain[fx], FxInput[fx]>>}
           ELSE {} : fx \in DOMAIN FxInput}

\* trackOut -> limiter -> preCompressorBus, and the sends taken from the
\* limiter; the variant takes the sends from trackOut
trackOutput_sendsBeforeLimiter(fxSends) ==
    {<<"trackOut", "limiter">>, <<"limiter", "preCompressorBus">>}
        \cup connectToFX("trackOut", fxSends)
trackOutput(fxSends) ==
    {<<"trackOut", "limiter">>, <<"limiter", "preCompressorBus">>}
        \cup connectToFX("limiter", fxSends)

\* targets[lfoParams.destination]
TargetParam(targets, destination) ==
    IF destination \in DOMAIN targets THEN targets[destination] ELSE Undefined

NoLfo == [created |-> FALSE]     \* applyLFO returns nothing

\* applyLFO(lfoParams, time, targets); the variant does not look at the depth
applyLFO_anyDepth(lfoParams, targets) ==
    IF lfoParams.destination = "none" THEN NoLfo
    ELSE IF TargetParam(targets, lfoParams.destination) = Undefined THEN NoLfo
    ELSE [created |-> TRUE, destination |-> lfoParams.destination,
          target |-> TargetParam(targets, lfoParams.destination),
          waveform |-> lfoParams.waveform, rate |-> lfoParams.rate, depth |-> lfoParams.depth,
          start |-> 0, stop |-> Never]
applyLFO(lfoParams, targets) ==
    IF lfoParams.destination = "none" \/ lfoParams.depth = 0 THEN NoLfo
    ELSE IF TargetParam(targets, lfoParams.destination) = Undefined THEN NoLfo
    ELSE [created |-> TRUE, destination |-> lfoParams.destination,
          target |-> TargetParam(targets, lfoParams.destination),
          waveform |-> lfoParams.waveform, rate |-> lfoParams.rate, depth |-> lfoParams.depth,
          start |-> 0, stop |-> Never]

\* if (lfo1Node) lfos.push(lfo1Node); if (lfo2Node) lfos.push(lfo2Node)
pushLfos(lfo1Node, lfo2Node) == SelectSeq(<<lfo1Node, lfo2Node>>, LAMBDA l : l.created)

\* lfos.forEach(lfo => lfo.stop(stopTime)); the variant stops the first only
stopLfos_firstOnly(lfos, stopTime) ==
    [i \in DOMAIN lfos |-> IF i = 1 THEN [lfos[i] EXCEPT !.stop = stopTime] ELSE lfos[i]]
stopLfos(lfos, stopTime) == [i \in DOMAIN lfos |-> [lfos[i] EXCEPT !.stop = stopTime]]

\* lfo.connect(lfoGain); lfoGain.connect(targetParam), for every LFO made
lfoEdges(lfos) ==
    UNION {{<<Indexed("lfo", i), Indexed("lfoGain", i)>>,
            <<Indexed("lfoGain", i), lfos[i].target>>} : i \in DOMAIN lfos}

\* the LFOs of a voice as sources
lfoSources(lfos) == {Src(Indexed("lfo", i), lfos[i].start, lfos[i].stop) : i \in DOMAIN lfos}

\* what a create<Kind>Voice has built when it returns
Graph(type, edges, sources, lfoTargets, lfos, stopTime) ==
    [type |-> type, edges |-> edges \cup lfoEdges(lfos), lfoTargets |-> lfoTargets,
     sources |-> sources \cup lfoSources(stopLfos(lfos, stopTime)),
     lfos |-> stopLfos(lfos, stopTime), stopTime |-> stopTime]

\* (pLocks?.polyParams?.filter as any)?.envAmount
lockedEnvAmount(pLocks) ==
    IF /\ pLocks # NoLocks
       /\ "polyParams" \in DOMAIN pLocks
       /\ "filter" \in DOMAIN pLocks.polyParams
       /\ "envAmount" \in DOMAIN pLocks.polyParams.filter
    THEN [set |-> TRUE, value |-> pLocks.polyParams.filter.envAmount]
    ELSE [set |-> FALSE]

\* lock?.envAmount ?? params.filterEnv.attack > 0 ? 3000 : 0, which the
\* language reads as (lock?.envAmount ?? (attack > 0)) ? 3000 : 0; the
\* variant takes a locked filter that has no envAmount for an amount of 0
filterEnvAmount_lockedFilter(pLocks, params) ==
    LET locked == lockedEnvAmount(pLocks)
        filterLocked == /\ pLocks # NoLocks
                        /\ "polyParams" \in DOMAIN pLocks
                        /\ "filter" \in DOMAIN pLocks.polyParams
        condition == IF locked.set THEN locked.value # 0
                     ELSE ~filterLocked /\ params.filterEnv.attack > 0
    IN  IF condition THEN 3000 ELSE 0
filterEnvAmount(pLocks, params) ==
    LET locked == lockedEnvAmount(pLocks)
        condition == IF locked.set THEN locked.value # 0 ELSE params.filterEnv.attack > 0
    IN  IF condition THEN 3000 ELSE 0

\* the looping noise source of a Poly voice; the variant never stops it
polyNoise_neverStopped(noiseLevel, stopTime) ==
    IF noiseLevel > 0 THEN {Src("noise", 0, Never)} ELSE {}
polyNoise(noiseLevel, stopTime) ==
    IF noiseLevel > 0 THEN {Src("noise", 0, stopTime)} ELSE {}

polyGraph(v, pLocks) ==
    LET p == v.params
        totalDuration == (p.ampEnv.attack + p.ampEnv.decay + p.ampEnv.release) * 10
        stopTime == totalDuration + 2000
        amount == filterEnvAmount(pLocks, p)
        lfoTargets == [pitch |-> "osc1Node.detune", volume |-> "trackOut.gain",
                       filterCutoff |-> "filterNode.frequency", filterResonance |-> "filterNode.Q",
                       polyOscMix |-> "osc2Gain.gain", polyNoise |-> "noiseGain.gain"]
        lfos == pushLfos(applyLFO(p.lfo1, lfoTargets), applyLFO(p.lfo2, lfoTargets))
        edges == trackOutput(v.fxSends)
                 \cup {<<"osc1Node", "osc1Gain">>, <<"osc2Node", "osc2Gain">>,
                       <<"osc1Gain", "sourceMixer">>, <<"osc2Gain", "sourceMixer">>,
                       <<"sourceMixer", "filterNode">>, <<"filterNode", "amp">>,
                       <<"amp", "trackOut">>}
                 \cup (IF p.noiseLevel > 0
                       THEN {<<"noise", "noiseGain">>, <<"noiseGain", "sourceMixer">>} ELSE {})
                 \cup (IF amount # 0 THEN {<<"filterEnvMod", "filterNode.frequency">>} ELSE {})
        sources == {Src("osc1Node", 0, stopTime), Src("osc2Node", 0, stopTime)}
                   \cup polyNoise(p.noiseLevel, stopTime)
    IN  Spread(Graph("poly", edges, sources, lfoTargets, lfos, stopTime),
               [filterEnvAmount |-> amount, filterEnvMod |-> amount # 0])

kickGraph(v) ==
    LET p == v.params
        stopTime == p.decay * 10 + 2000
        rumble == p.rumbleAmount > 0
        lfoTargets == [pitch |-> "osc.detune", volume |-> "trackOut.gain",
                       filterCutoff |-> "mainFilter.frequency", filterResonance |-> "mainFilter.Q",
                       kickSaturation |-> "saturatorDrive.gain", kickTransient |-> "transientAmp.gain",
                       kickPitchEnv |-> "pitchEnv.gain", kickBody |-> "saturatedGain.gain",
                       kickTone |-> "toneFilter.frequency",
                       kickRumbleAmt |-> IF rumble THEN "rumblePreGain.gain" ELSE Undefined,
                       kickRumbleTone |-> IF rumble THEN "rumbleFilterNode.frequency" ELSE Undefined]
        lfos == pushLfos(applyLFO(p.lfo1, lfoTargets), applyLFO(p.lfo2, lfoTargets))
        edges == trackOutput(v.fxSends)
                 \cup {<<"pitchEnv", "osc.detune">>, <<"osc", "amp">>,
                       <<"transientSource", "transientFilter">>, <<"transientFilter", "transientAmp">>,
                       <<"amp", "preSaturatorMix">>, <<"transientAmp", "preSaturatorMix">>,
                       <<"preSaturatorMix", "saturatorDrive">>, <<"saturatorDrive", "saturator">>,
                       <<"amp", "cleanGain">>, <<"saturator", "saturatedGain">>,
                       <<"cleanGain", "finalMixer">>, <<"saturatedGain", "finalMixer">>,
                       <<"finalMixer", "postMixGain">>, <<"postMixGain", "toneFilter">>,
                       <<"toneFilter", "mainFilter">>, <<"mainFilter", "mainAndRumbleMixer">>,
                       <<"mainAndRumbleMixer", "trackOut">>}
                 \cup (IF rumble
                       THEN {<<"postMixGain", "rumblePreGain">>, <<"rumblePreGain", "rumbleReverb">>,
                             <<"rumbleReverb", "rumbleFilterNode">>, <<"amp", "ducker">>,
                             <<"ducker", "inverter">>, <<"inverter", "duckingAmount.gain">>,
                             <<"rumbleFilterNode", "duckingAmount">>,
                             <<"duckingAmount", "mainAndRumbleMixer">>}
                       ELSE {})
        sources == {Src("osc", 0, stopTime), Src("transientSource", 0, 100)}
    IN  Graph("kick", edges, sources, lfoTargets, lfos, stopTime)

hatGraph(v) ==
    LET p == v.params
        stopTime == p.decay * 10 + 1000
        lfoTargets == [volume |-> "trackOut.gain", filterCutoff |-> "mainFilter.frequency",
                       filterResonance |-> "mainFilter.Q", hatTone |-> "noiseFilter.frequency",
                       hatMetal |-> "metalGain.gain"]
        lfos == pushLfos(applyLFO(p.lfo1, lfoTargets), applyLFO(p.lfo2, lfoTargets))
        metalOscs == IF p.metal > 0 THEN 0..5 ELSE {}
        edges == trackOutput(v.fxSends)
                 \cup {<<"noiseSource", "noiseFilter">>, <<"metalMixer", "metalGain">>,
                       <<"noiseFilter", "sourceMixer">>, <<"metalGain", "sourceMixer">>,
                       <<"sourceMixer", "amp">>, <<"amp", "mainFilter">>, <<"mainFilter", "trackOut">>}
                 \cup {<<Indexed("osc", i), "metalMixer">> : i \in metalOscs}
        sources == {Src("noiseSource", 0, stopTime)}
                   \cup {Src(Indexed("osc", i), 0, stopTime) : i \in metalOscs}
    IN  Graph("hat", edges, sources, lfoTargets, lfos, stopTime)

bassGraph(v) ==
    LET p == v.params
        stopTime == p.decay * 10 + 1000
        lfoTargets == [pitch |-> "osc.detune", volume |-> "trackOut.gain",
                       filterCutoff |-> "mainFilter.frequency", filterResonance |-> "mainFilter.Q",
                       bassCutoff |-> "accentFilter.frequency"]
        lfos == pushLfos(applyLFO(p.lfo1, lfoTargets), applyLFO(p.lfo2, lfoTargets))
        edges == trackOutput(v.fxSends)
                 \cup {<<"osc", "accentFilter">>, <<"accentFilter", "mainFilter">>,
                       <<"mainFilter", "amp">>, <<"amp", "trackOut">>}
    IN  Graph("bass", edges, {Src("osc", 0, stopTime)}, lfoTargets, lfos, stopTime)

NUM_MODES == 8
HARMONIC_RATIOS == <<100, 200, 300, 400, 500, 600, 700, 800>>
METALLIC_RATIOS == <<100, 276, 540, 890, 1320, 1830, 2410, 3080>>

\* the modes whose frequency baseFreq * ratio is not above half the sample
\* rate (if (freq > sampleRate / 2) continue).  The product is compared
\* without rounding: the frequency in thousandths of a hertz times the ratio
\* HARMONIC * (1 - structRatio) + METALLIC * structRatio in millionths
\* against 22050 * 10^9; a frequency that is not a number is above nothing
modalModes(note, structure) ==
    {i \in 0..(NUM_MODES - 1) :
        LET ratio == HARMONIC_RATIOS[i + 1] * (10000 - structure)
                     + METALLIC_RATIOS[i + 1] * structure
            baseFreq == noteToFreq(note)
            freq == LET f == <<baseFreq % B, baseFreq \div B, 0, 0, 0>>
                    IN  BAdd(BMulSmall(BMulSmall(f, ratio \div 10000), 10000),
                             BMulSmall(f, ratio % 10000))
            nyquist == BMulSmall(BMulSmall(BMulSmall(<<sampleRate \div 2, 0, 0, 0, 0>>, 1000), 1000), 1000)
        IN  baseFreq = NaN \/ ~BLess(nyquist, freq)}

modalGraph(v) ==
    LET p == v.params
        stopTime == p.decay * 10 + 1000
        lfoTargets == [volume |-> "trackOut.gain", filterCutoff |-> "mainFilter.frequency",
                       filterResonance |-> "mainFilter.Q", modalStructure |-> Undefined,
                       modalBrightness |-> "brightnessGain.gain"]
        lfos == pushLfos(applyLFO(p.lfo1, lfoTargets), applyLFO(p.lfo2, lfoTargets))
        modes == modalModes(v.note, p.structure)
        edges == trackOutput(v.fxSends)
                 \cup {<<"exciter", "exciterAmp">>, <<"resonatorOut", "mainFilter">>,
                       <<"mainFilter", "amp">>, <<"amp", "trackOut">>}
                 \cup UNION {{<<"exciterAmp", Indexed("modeFilter", i)>>,
                              <<Indexed("modeFilter", i), Indexed("modeGain", i)>>,
                              <<Indexed("modeGain", i), "resonatorOut">>} : i \in modes}
    IN  Graph("modal", edges, {Src("exciter", 0, 100)}, lfoTargets, lfos, stopTime)

riftGraph(v) ==
    LET p == v.params
        stopTime == p.decay * 10 + 1000
        lfoTargets == [pitch |-> "osc.detune", volume |-> "trackOut.gain",
                       filterCutoff |-> "mainFilter.frequency", filterResonance |-> "mainFilter.Q",
                       riftFold |-> Undefined, riftDrive |-> Undefined,
                       riftFeedback |-> "feedbackGain.gain"]
        lfos == pushLfos(applyLFO(p.lfo1, lfoTargets), applyLFO(p.lfo2, lfoTargets))
        edges == trackOutput(v.fxSends)
                 \cup {<<"osc", "amp">>, <<"amp", "folder">>, <<"folder", "driveNode">>,
                       <<"driveNode", "feedbackPath">>, <<"feedbackPath", "feedbackGain">>,
                       <<"feedbackGain", "folder">>, <<"driveNode", "mainFilter">>,
                       <<"mainFilter", "trackOut">>}
    IN  Graph("rift", edges, {Src("osc", 0, stopTime)}, lfoTargets, lfos, stopTime)

\* grainOsc.stop(startTime + gSize * 2); the variant takes gSize in seconds
\* for milliseconds
grainStop_long(startTime, gSize) == startTime + gSize * 2 * 1000
grainStop(startTime, gSize) == startTime + gSize * 2

grainGraph(v) ==
    LET p == v.params
        grainCount == 2 + (p.density * 20) \div 10000
        totalDuration == p.decay * 15
        stopTime == totalDuration + 1000
        gSize == Max(10, (p.grainSize * 2) \div 100)
        startTime(i) == (i * totalDuration * (10000 - p.spread)) \div (grainCount * 10000)
        lfoTargets == [pitch |-> Undefined, volume |-> "trackOut.gain",
                       filterCutoff |-> "mainFilter.frequency", filterResonance |-> "mainFilter.Q",
                       grainPitch |-> "grainPitch.gain", grainDensity |-> Undefined,
                       grainSize |-> Undefined]
        lfos == pushLfos(applyLFO(p.lfo1, lfoTargets), applyLFO(p.lfo2, lfoTargets))
        edges == trackOutput(v.fxSends)
                 \cup {<<"mainFilter", "trackOut">>}
                 \cup UNION {{<<"grainPitch", Indexed("grainOsc", i) \o ".detune">>,
                              <<Indexed("grainOsc", i), Indexed("grainAmp", i)>>,
                              <<Indexed("grainAmp", i), "mainFilter">>} : i \in 0..(grainCount - 1)}
        sources == {Src(Indexed("grainOsc", i), startTime(i), grainStop(startTime(i), gSize)) :
                        i \in 0..(grainCount - 1)}
    IN  Graph("grain", edges, sources, lfoTargets, lfos, stopTime)

screamGraph(v) ==
    LET p == v.params
        stopTime == p.decay * 10 + 1000
        lfoTargets == [pitch |-> Undefined, volume |-> "trackOut.gain",
                       filterCutoff |-> "mainFilter.frequency", filterResonance |-> "mainFilter.Q",
                       screamFeedback |-> "feedbackGain.gain",
                       screamDamping |-> "dampingFilter.frequency"]
        lfos == pushLfos(applyLFO(p.lfo1, lfoTargets), applyLFO(p.lfo2, lfoTargets))
        edges == trackOutput(v.fxSends)
                 \cup {<<"exciter", "exciterAmp">>, <<"exciterAmp", "feedbackPath">>,
                       <<"feedbackPath", "dampingFilter">>, <<"dampingFilter", "feedbackGain">>,
                       <<"feedbackGain", "feedbackPath">>, <<"feedbackGain", "mainFilter">>,
                       <<"mainFilter", "amp">>, <<"amp", "trackOut">>}
    IN  Graph("scream", edges, {Src("exciter", 0, 50)}, lfoTargets, lfos, stopTime)

\* the graph the create<Kind>Voice of the voice's kind builds
voiceGraph(v, pLocks) ==
    CASE v.type = "kick" -> kickGraph(v)
      [] v.type = "hat" -> hatGraph(v)
      [] v.type = "poly" -> polyGraph(v, pLocks)
      [] v.type = "bass" -> bassGraph(v)
      [] v.type = "modal" -> modalGraph(v)
      [] v.type = "rift" -> riftGraph(v)
      [] v.type = "grain" -> grainGraph(v)
      [] v.type = "scream" -> screamGraph(v)

(***************************************************************************)
(* VoiceSpec: AudioEngine.trigger applied to a track whose parameters are  *)
(* at the ends of their knobs' ranges, with the LFO destinations the       *)
(* track's editor offers, and to a lock                                    *)
(***************************************************************************)
\* the destinations the LFO sections of the editor of each kind offer
destOptions(type) ==
    {"none", "volume", "filterCutoff", "filterResonance"} \cup
    CASE type = "kick" -> {"pitch", "kickSaturation", "kickTransient", "kickPitchEnv", "kickBody",
                           "kickTone", "kickRumbleAmt", "kickRumbleDecay", "kickRumbleTone"}
      [] type = "hat" -> {"hatTone", "hatMetal"}
      [] type = "poly" -> {"pitch", "polyOscMix", "polyNoise"}
      [] type = "bass" -> {"pitch", "bassCutoff"}
      [] type = "modal" -> {"pitch", "modalStructure", "modalBrightness"}
      [] type = "rift" -> {"pitch", "riftFold", "riftDrive", "riftFeedback"}
      [] type = "grain" -> {"pitch", "grainPitch", "grainDensity", "grainSize"}
      [] type = "scream" -> {"pitch", "screamFeedback", "screamDamping"}

\* the ends of the ranges of the knobs that set a voice's duration and
\* its optional sources, in hundredths; << >> leaves the initial values
RangeEnds(type) ==
    {EmptyRec} \cup
    CASE type = "kick" -> {[decay |-> 10, rumbleAmount |-> 0], [decay |-> 200, rumbleAmount |-> 10000]}
      [] type = "hat" -> {[decay |-> 1, metal |-> 0], [decay |-> 50, metal |-> 100]}
      [] type = "poly" ->
            {[ampEnv |-> [attack |-> 1, decay |-> 1, sustain |-> 10, release |-> 1],
              filterEnv |-> [attack |-> 0, decay |-> 40, sustain |-> 0, release |-> 40],
              noiseLevel |-> 0],
             [ampEnv |-> [attack |-> 400, decay |-> 400, sustain |-> 10, release |-> 400],
              noiseLevel |-> 100]}
      [] type = "bass" -> {[decay |-> 1], [decay |-> 100]}
      [] type = "modal" -> {[decay |-> 1, structure |-> 0], [decay |-> 100, structure |-> 10000]}
      [] type = "rift" -> {[decay |-> 1], [decay |-> 200]}
      [] type = "grain" ->
            {[decay |-> d, density |-> n, spread |-> s, grainSize |-> g] :
                d \in {10, 200}, n \in {0, 10000}, s \in {0, 10000}, g \in {0, 10000}}
      [] type = "scream" -> {[decay |-> 10], [decay |-> 200]}

Lfo1Inputs(type) ==
    {NEUTRAL_LFO, [waveform |-> "sine", rate |-> 200, depth |-> 0, destination |-> "volume"]} \cup
    {[waveform |-> "sine", rate |-> 200, depth |-> 300, destination |-> d] : d \in destOptions(type)}
Lfo2Inputs ==
    {NEUTRAL_LFO, [waveform |-> "square", rate |-> 50, depth |-> 500, destination |-> "filterCutoff"]}
SendInputs(track) ==
    {track.fxSends, [reverb |-> 0, delay |-> 0, drive |-> 0], [reverb |-> 100, delay |-> 100, drive |-> 100]}

\* the locks of a step: none, one that locks a send, and for the Poly track
\* a lock of the filter as the filter section writes it (type, cutoff and
\* resonance) and a lock of the filter envelope without attack
VoiceLocks(type) ==
    {NoLocks, [fxSends |-> [reverb |-> 90]]} \cup
    IF type = "poly"
    THEN {[polyParams |-> [filter |-> [type |-> "lowpass", cutoff |-> 100000, resonance |-> 100]]],
          [polyParams |-> [filterEnv |-> [attack |-> 0, decay |-> 40, sustain |-> 0, release |-> 40]]]}
    ELSE {}

\* the note of the step, as its characters
VoiceNotes(type) == IF type = "modal" THEN {<<"C", "4">>, <<"G", "9">>} ELSE {<<"C", "4">>}

VoiceInit ==
    /\ isPlaying = FALSE
    /\ bpm = 120
    /\ globalFxParams = INITIAL_GLOBAL_FX
    /\ \E id \in TrackIds :
         LET track == INITIAL_TRACKS[id]
         IN  /\ \E ends \in RangeEnds(track.type), lfo1 \in Lfo1Inputs(track.type),
                   lfo2 \in Lfo2Inputs, sends \in SendInputs(track) :
                    tracks = [INITIAL_TRACKS EXCEPT
                                ![id].params = Spread(Spread(track.params, ends),
                                                      [lfo1 |-> lfo1, lfo2 |-> lfo2]),
                                ![id].fxSends = sends]
             /\ \E pLocks \in VoiceLocks(track.type), note \in VoiceNotes(track.type) :
                    last = [cmd |-> "input", trackId |-> id, pLocks |-> pLocks, note |-> note]
    /\ currentStep = -1
    /\ selectedTrackId = 0
    /\ mutedTracks = {}
    /\ soloedTrackId = NoSolo
    /\ pLockModeActive = FALSE
    /\ pLockEditStep = NoEdit
    /\ schedulerTimer = NoTimer
    /\ intervals = << >>
    /\ engineFx = engineFxOf(globalFxParams, bpm)
    /\ fxEffectQueued = FALSE
    /\ nextNoteTime = BZero
    /\ clock = 0
    /\ run = NoRun
    /\ exportJob = NoJob
    /\ mounted = TRUE

\* audioEngine.trigger(track, pLocks, time, note, velocity): the parameters
\* are resolved and the graph of the voice is built
TriggerVoice ==
    /\ last.cmd = "input"
    /\ \E v \in {trigger(tracks[last.trackId], last.pLocks, ClockTime(clock), last.note, 100)} :
          last' = [cmd |-> "voice", trackId |-> last.trackId, pLocks |-> last.pLocks,
                   voice |-> v, graph |-> voiceGraph(v, last.pLocks)]
    /\ UNCHANGED <<bpm, globalFxParams, engineFx, fxEffectQueued, editVars, mixVars, playVars, clock>>

VoiceNext == TriggerVoice

VoiceSpec == VoiceInit /\ [][VoiceNext]_vars

\* C25: in a Poly voice the filter-envelope amount is the envAmount of the
\* step lock's filter when the lock defines it, and otherwise 3000 if the
\* resolved filterEnv.attack is above 0 and 0 if not; the filter-envelope
\* modulator is made and connected iff that amount is not 0.
C25_PolyFilterEnvAmount ==
    (last.cmd = "voice" /\ last.voice.type = "poly") =>
        LET lock == last.pLocks
            defined == /\ Defines(lock, "polyParams")
                       /\ "filter" \in DOMAIN lock.polyParams
                       /\ "envAmount" \in DOMAIN lock.polyParams.filter
            amount == IF defined THEN lock.polyParams.filter.envAmount
                      ELSE IF last.voice.params.filterEnv.attack > 0 THEN 3000 ELSE 0
        IN  /\ last.graph.filterEnvAmount = amount
            /\ last.graph.filterEnvMod <=> (amount # 0)
            /\ (<<"filterEnvMod", "filterNode.frequency">> \in last.graph.edges) <=> (amount # 0)

\* a Poly voice whose step lock holds the filter as the editor writes it,
\* without envAmount, over the initial filter envelope: the amount is 3000
\* and the modulator is made and connected
C25_Witness ==
    /\ last.cmd = "voice" /\ last.voice.type = "poly"
    /\ Defines(last.pLocks, "polyParams") /\ "filter" \in DOMAIN last.pLocks.polyParams
    /\ "envAmount" \notin DOMAIN last.pLocks.polyParams.filter
    /\ last.voice.params.filterEnv = INITIAL_POLY_PARAMS.filterEnv
    /\ last.graph.filterEnvAmount = 3000 /\ last.graph.filterEnvMod
    /\ <<"filterEnvMod", "filterNode.frequency">> \in last.graph.edges

\* C26: applyLFO makes and starts an LFO iff the LFO's destination is not
\* "none", its depth is not 0 and the destination names a parameter present
\* in the target table of the voice; otherwise it makes nothing.  Every LFO
\* started is scheduled to stop at the stop time of its voice, and a voice
\* has at most two LFOs.
C26_LfoStartedIffTargeted ==
    last.cmd = "voice" =>
        LET g == last.graph
            p == last.voice.params
            present(d) == d \in DOMAIN g.lfoTargets /\ g.lfoTargets[d] # Undefined
            wanted(l) == l.destination # "none" /\ l.depth # 0 /\ present(l.destination)
            expected == SelectSeq(<<p.lfo1, p.lfo2>>, wanted)
        IN  /\ Len(g.lfos) = Len(expected)
            /\ Len(g.lfos) <= 2
            /\ \A i \in DOMAIN g.lfos :
                  /\ g.lfos[i].destination = expected[i].destination
                  /\ g.lfos[i].target = g.lfoTargets[expected[i].destination]
                  /\ g.lfos[i].start = 0
                  /\ g.lfos[i].stop = g.stopTime
                  /\ <<Indexed("lfoGain", i), g.lfos[i].target>> \in g.edges
            /\ {s \in g.sources : s.node \in {"lfo1", "lfo2"}}
                  = {Src(Indexed("lfo", i), 0, g.stopTime) : i \in DOMAIN g.lfos}

\* a Kick without rumble whose first LFO asks for the rumble tone, which the
\* table does not hold then, and whose second LFO is started
C26_Witness ==
    /\ last.cmd = "voice" /\ last.voice.type = "kick"
    /\ last.voice.params.rumbleAmount = 0
    /\ last.voice.params.lfo1.destination = "kickRumbleTone"
    /\ last.voice.params.lfo1.depth # 0
    /\ Len(last.graph.lfos) = 1
    /\ last.graph.lfos[1].destination = "filterCutoff"

RECURSIVE ReachFrom(_, _)
\* the nodes the signal of the given nodes reaches along the edges
ReachFrom(nodes, edges) ==
    LET next == nodes \cup {e[2] : e \in {d \in edges : d[1] \in nodes}}
    IN  IF next = nodes THEN nodes ELSE ReachFrom(next, edges)

\* the stop time the voice of each kind is to have, from its resolved
\* parameters, in milliseconds after the trigger
StopTimeOf(type, p) ==
    CASE type = "kick" -> p.decay * 10 + 2000
      [] type = "poly" -> (p.ampEnv.attack + p.ampEnv.decay + p.ampEnv.release) * 10 + 2000
      [] type = "grain" -> p.decay * 15 + 1000
      [] OTHER -> p.decay * 10 + 1000

\* C27: for each of the eight kinds and parameter values at the ends of
\* their declared ranges, every oscillator or noise source a trigger at
\* time t starts is scheduled to stop, no later than the stop time of the
\* voice: Kick t+decay+2; Poly t+attack+decay+release+2; Grain
\* t+1.5*decay+1; Hat, Bass, Modal, Rift, Scream t+decay+1.
C27_SourcesStopByStopTime ==
    last.cmd = "voice" =>
        LET g == last.graph
        IN  /\ g.stopTime = StopTimeOf(last.voice.type, last.voice.params)
            /\ g.sources # {}
            /\ \A s \in g.sources :
                  /\ s.start >= 0
                  /\ s.stop # Never
                  /\ s.start <= s.stop
                  /\ s.stop <= g.stopTime

\* the shortest Grain voice with the most and the longest grains, none
\* spread: its last grain stops after the grain cloud's duration is over,
\* within the tail; and two LFOs run with it
C27_Witness ==
    /\ last.cmd = "voice" /\ last.voice.type = "grain"
    /\ last.voice.params.decay = 10 /\ last.voice.params.density = 10000
    /\ last.voice.params.spread = 0 /\ last.voice.params.grainSize = 10000
    /\ Cardinality(last.graph.sources) = 24
    /\ \E s \in last.graph.sources : s.start > 0 /\ s.stop > last.voice.params.decay * 15

\* the nodes of the engine that all voices share: the bus in front of the
\* master compressor and the inputs of the three effects
SharedInputs == {"preCompressorBus"} \cup {FxInput[fx] : fx \in DOMAIN FxInput}
SendGains == {FxSendGain[fx] : fx \in DOMAIN FxSendGain}

\* C28: in every voice kind every signal path from the voice's sources to
\* the shared pre-compressor bus or to the input of a shared effect (reverb,
\* delay, drive) passes through the voice's own limiter: only the limiter
\* connects to the bus, only send gains connect to effect inputs, only the
\* limiter feeds the send gains, and without the limiter's outputs no
\* source reaches a shared node.
C28_LimiterOnEveryPath ==
    last.cmd = "voice" =>
        LET g == last.graph
            started == {s.node : s \in g.sources}
            beforeLimiter == {e \in g.edges : e[1] # "limiter"}
        IN  /\ \A e \in g.edges :
                  /\ e[2] = "preCompressorBus" => e[1] = "limiter"
                  /\ e[2] \in SharedInputs \ {"preCompressorBus"} => e[1] \in SendGains
                  /\ e[2] \in SendGains => e[1] = "limiter"
            /\ ReachFrom(started, beforeLimiter) \cap (SharedInputs \cup SendGains) = {}
            /\ "limiter" \in ReachFrom(started, beforeLimiter)
            /\ "preCompressorBus" \in ReachFrom(started, g.edges)

\* a Kick with its rumble chain and all three sends open: the bus and the
\* three effect inputs are all reached
C28_Witness ==
    /\ last.cmd = "voice" /\ last.voice.type = "kick"
    /\ last.voice.params.rumbleAmount > 0
    /\ \A fx \in DOMAIN FxInput : last.voice.fxSends[fx] > 0
    /\ SharedInputs \subseteq ReachFrom({s.node : s \in last.graph.sources}, last.graph.edges)

(***************************************************************************)
(* Export and the real-time engine                                         *)
(***************************************************************************)
\* C29: an export request leaves the track table, bpm, the mute set, the
\* solo track and the global FX parameters as they are and does not touch
\* the real-time engine's effect nodes, in its stop, in the scheduling of
\* the offline events and when the rendering has finished; if the scheduler
\* was Running when the export was requested it is Stopped (step readout
\* "none", tick cancelled: no interval is left) before any offline event is
\* scheduled; and it is not restarted when the export finishes.
C29_ExportFrame ==
    [][/\ last'.cmd \in {"export", "render", "exportDone"} =>
             /\ tracks' = tracks /\ bpm' = bpm
             /\ mutedTracks' = mutedTracks /\ soloedTrackId' = soloedTrackId
             /\ globalFxParams' = globalFxParams
             /\ engineFx' = engineFx
       /\ last'.cmd = "export" =>
             /\ last'.wasPlaying = isPlaying
             /\ isPlaying => /\ ~isPlaying' /\ currentStep' = -1
                             /\ ~schedulerTimer'.set /\ intervals' = << >>
             /\ ~isPlaying => UNCHANGED transportVars
       /\ last'.cmd = "render" =>
             /\ last.cmd = "export" /\ ~isPlaying
             /\ last.wasPlaying => /\ currentStep = -1
                                   /\ ~schedulerTimer.set /\ intervals = << >>
             /\ UNCHANGED transportVars
       /\ last'.cmd = "exportDone" => UNCHANGED transportVars]_vars

(***************************************************************************)
(* FxSpec: the tempo-synced times of the delay and of the reverb           *)
(* pre-delay, at every tempo of the BPM knob                               *)
(***************************************************************************)
\* the values of TIME_DIVISIONS, in 48ths of a beat
TIME_DIVISIONS ==
    <<[name |-> "1/64", value |-> 3], [name |-> "1/32", value |-> 6],
      [name |-> "1/16", value |-> 12], [name |-> "1/8", value |-> 24],
      [name |-> "1/4", value |-> 48], [name |-> "1/2", value |-> 96],
      [name |-> "1 bar", value |-> 192], [name |-> "1/16T", value |-> 8],
      [name |-> "1/8T", value |-> 16], [name |-> "1/4T", value |-> 32],
      [name |-> "1/16D", value |-> 18], [name |-> "1/8D", value |-> 36],
      [name |-> "1/4D", value |-> 72]>>

\* the capacities of the two delay lines the engine creates, in microseconds
delayCapacity == 2000000          \* createDelay(2.0)
preDelayCapacity == 500000        \* createDelay(0.5)

\* handleGlobalFxChange(fx, param, value), then the effect that passes the
\* new parameters to the real-time engine
handleGlobalFxChange(fx, param, value) ==
    /\ ~fxEffectQueued
    /\ globalFxParams' = globalFxChange(globalFxParams, fx, param, value)
    /\ fxEffectQueued' = TRUE
    /\ last' = [cmd |-> "fx"]
    /\ UNCHANGED <<bpm, engineFx, editVars, mixVars, playVars, clock>>

\* the SYNC button of the reverb and the division selectors of the effects
\* rack; a selector is shown while its SYNC is on, as the delay's is from
\* the start
onPreDelaySync == handleGlobalFxChange("reverb", "preDelaySync", ~globalFxParams.reverb.preDelaySync)
onTimeDivision(i) ==
    /\ globalFxParams.delay.timeSync
    /\ handleGlobalFxChange("delay", "timeDivision", TIME_DIVISIONS[i].value)
onPreDelayDivision(i) ==
    /\ globalFxParams.reverb.preDelaySync
    /\ handleGlobalFxChange("reverb", "preDelayDivision", TIME_DIVISIONS[i].value)

FxBpms == {30, 45, 60, 120, 240, 250}      \* the ends of the BPM knob and tempos between
FxInit ==
    /\ isPlaying = FALSE
    /\ bpm \in FxBpms
    /\ globalFxParams = INITIAL_GLOBAL_FX
    /\ tracks = INITIAL_TRACKS
    /\ currentStep = -1
    /\ selectedTrackId = 0
    /\ mutedTracks = {}
    /\ soloedTrackId = NoSolo
    /\ pLockModeActive = FALSE
    /\ pLockEditStep = NoEdit
    /\ schedulerTimer = NoTimer
    /\ intervals = << >>
    /\ engineFx = engineFxOf(globalFxParams, bpm)
    /\ fxEffectQueued = FALSE
    /\ nextNoteTime = BZero
    /\ clock = 0
    /\ run = NoRun
    /\ exportJob = NoJob
    /\ mounted = TRUE
    /\ last = [cmd |-> "none"]

FxNext ==
    \/ onPreDelaySync
    \/ fxEffect
    \/ \E i \in DOMAIN TIME_DIVISIONS : onTimeDivision(i)
    \/ \E i \in DOMAIN TIME_DIVISIONS : onPreDelayDivision(i)

FxSpec == FxInit /\ [][FxNext]_vars

\* C30: for every bpm in 30..250 and every tempo division the effects rack
\* offers, the tempo-synced delay time (60/bpm x division) that updateDelay
\* sets is at most the 2.0 s the delay line holds, and the tempo-synced
\* pre-delay that updateReverb sets is at most the 0.5 s the pre-delay line
\* holds.
C30_SyncedTimesFitDelayLines ==
    /\ globalFxParams.delay.timeSync => engineFx.delay.delayTime <= delayCapacity
    /\ globalFxParams.reverb.preDelaySync => engineFx.reverb.preDelayTime <= preDelayCapacity

====
